---------------------------- MODULE Spec2Model ----------------------------
(***************************************************************************)
(* A model of the AIOSomecomfort client library.                           *)
(*                                                                         *)
(*   aiosomecomfort/__init__.py   AIOSomeComfort: login with its rate      *)
(*                                limit, the authenticated fetch           *)
(*                                _request_json and the session methods    *)
(*                                built on it                              *)
(*   aiosomecomfort/device.py     Device: the cached state and the         *)
(*                                setpoint, hold, fan and system commands  *)
(*                                                                         *)
(* A coroutine is a task with a program counter: it suspends at every      *)
(* awaited network call, and the answer of the server (or the failure of   *)
(* the transport) is chosen when it resumes.  The clock is in minutes.     *)
(***************************************************************************)
EXTENDS Integers, Sequences, FiniteSets, TLC

VARIABLES
    now,                \* datetime.datetime.now(datetime.timezone.utc)
    next_login,         \* AIOSomeComfort._next_login
    null_cookie_count,  \* AIOSomeComfort._null_cookie_count
    headers,            \* AIOSomeComfort._headers
    counter,            \* AIOSomeComfort._counter, relative to 1700000000000
    locations,          \* AIOSomeComfort._locations
    cookie_jar,         \* session.cookie_jar: the auth cookie it holds
    dev,                \* the Device the caller commands
    task,               \* the caller's coroutines
    failed_logins       \* history: the logins that ended in AuthError since
                        \* the last login or fetch that succeeded

vars == <<now, next_login, null_cookie_count, headers, counter, locations,
          cookie_jar, dev, task, failed_logins>>

-----------------------------------------------------------------------------
(* Bounds of the model.                                                    *)

\* The clock stops at MaxTime.
MaxTime == 20
\* The clock advances TickStep minutes at a time.
TickStep == 5
\* No login is started once the failure counter has reached MaxFail.
MaxFail == 4
\* The cool side's upper limit; the callers ask for 0 .. MaxTemp + 1 degrees.
MaxTemp == 4
\* The device reports a deadband of 0 .. MaxDeadband degrees.
MaxDeadband == 2
\* The raw location records one discovery lists, at most.
MaxLocations == 2
\* The requests for thermostat data the session counts, at most.
MaxCounter == 2

-----------------------------------------------------------------------------
(* Program constants.                                                      *)

MIN_LOGIN_TIME == 10
MAX_LOGIN_ATTEMPTS == 3

FormType == "application/x-www-form-urlencoded"
JsonType == "application/json"
BinaryType == "application/octet-stream"
HtmlType == "text/html"

\* The statuses the server answers with: the ones the code names and one
\* that it does not (404).
Statuses == {200, 401, 403, 404, 500, 502, 503}
ContentTypes == {JsonType, BinaryType, HtmlType}

\* The AUTH_COOKIE of a response: absent, or present with an empty or a
\* non-empty value; the server sends it with an expiry aiohttp cannot parse.
NoCookie == [present |-> FALSE, value |-> "", expires |-> ""]
RespCookies == {NoCookie,
                [present |-> TRUE, value |-> "", expires |-> "malformed"],
                [present |-> TRUE, value |-> "tok", expires |-> "malformed"]}

NoResp == [status |-> 0, content_type |-> "", history |-> 0, cookie |-> NoCookie]

\* What the server may answer to the login POST and to the confirming GET.
LoginResponses ==
    [status : Statuses, content_type : {HtmlType}, history : {0},
     cookie : RespCookies]

\* What the server may answer to an authenticated call.
FetchResponses ==
    [status : Statuses, content_type : ContentTypes, history : {0, 1},
     cookie : {NoCookie}]

-----------------------------------------------------------------------------
(* The header map.                                                         *)

InitHeaders ==
    [h \in {"X-Requested-With", "Accept", "Connection", "Accept-Encoding"} |->
        CASE h = "X-Requested-With" -> "XMLHttpRequest"
          [] h = "Accept" -> "*/*"
          [] h = "Connection" -> "keep-alive"
          [] OTHER -> "gzip, deflate"]

SetHeader(hs, k, v) ==
    [h \in DOMAIN hs \cup {k} |-> IF h = k THEN v ELSE hs[h]]

ContentTypeOf(hs) ==
    IF "Content-Type" \in DOMAIN hs THEN hs["Content-Type"] ELSE "absent"

\* A request as the transport sends it.
Request(method, path, hs) ==
    [method |-> method, path |-> path, content_type |-> ContentTypeOf(hs),
     json |-> <<>>]

\* A request that carries a JSON body.
JsonRequest(method, path, hs, body) ==
    [method |-> method, path |-> path, content_type |-> ContentTypeOf(hs),
     json |-> body]

-----------------------------------------------------------------------------
(* Pure parts of AIOSomeComfort.                                           *)

\* _convert_errors: the wrapper is a plain function around a coroutine
\* function, so its try block covers the call that creates the coroutine
\* ("call") and not the awaited body ("await").
ConvertErrors(exc, phase) ==
    IF phase = "call" /\ exc = "ClientError" THEN "ConnectionError" ELSE exc

\* login: the rate-limit gate.
RateLimited_NoGate(nl, t) == FALSE

RateLimited(nl, t) == nl > t

\* _set_null_count: the counter and next_login after one more failure at t.
SetNullCount_EveryFailure(cnt, nl, t) ==
    [count |-> cnt + 1, next_login |-> t + MIN_LOGIN_TIME]

\* _set_null_count that starts counting afresh once the window has passed.
SetNullCount_WindowResets(cnt, nl, t) ==
    LET count == IF cnt >= MAX_LOGIN_ATTEMPTS /\ nl <= t THEN 1 ELSE cnt + 1
    IN  [count |-> count,
         next_login |-> IF count >= MAX_LOGIN_ATTEMPTS
                        THEN t + MIN_LOGIN_TIME ELSE nl]

SetNullCount(cnt, nl, t) ==
    [count |-> cnt + 1,
     next_login |-> IF cnt + 1 >= MAX_LOGIN_ATTEMPTS
                    THEN t + MIN_LOGIN_TIME ELSE nl]

\* login: what the answer to the POST leads to.
LoginPostOutcome_AllAuth(resp) ==
    IF resp.status # 200 THEN "AuthError" ELSE "confirm"

LoginPostOutcome(resp) ==
    IF resp.status = 401 THEN "AuthError"
    ELSE IF resp.status # 200 THEN "ConnectionError"
    ELSE "confirm"

\* login: what the answer to the confirming GET leads to.
LoginConfirmOutcome_StatusFirst(resp2) ==
    IF resp2.status = 401 THEN "AuthError"
    ELSE IF resp2.status # 200 THEN "ConnectionError"
    ELSE IF resp2.cookie.present /\ resp2.cookie.value = "" THEN "AuthError"
    ELSE "ok"

LoginConfirmOutcome(resp2) ==
    IF resp2.cookie.present /\ resp2.cookie.value = "" THEN "AuthError"
    ELSE IF resp2.status = 401 THEN "AuthError"
    ELSE IF resp2.status # 200 THEN "ConnectionError"
    ELSE "ok"

\* _request_json: the classification of a response.
RequestJsonOutcome_No403(resp) ==
    IF resp.status = 200 /\ resp.content_type \in {JsonType, BinaryType} THEN "ok"
    ELSE IF resp.status = 401 THEN "UnauthorizedError"
    ELSE IF resp.status \in {500, 502, 503} \/ resp.history > 0
         THEN "ConnectionError"
    ELSE "UnexpectedResponse"

RequestJsonOutcome(resp) ==
    IF resp.status = 200 /\ resp.content_type \in {JsonType, BinaryType} THEN "ok"
    ELSE IF resp.status = 401 THEN "UnauthorizedError"
    ELSE IF resp.status = 403 THEN "UnauthorizedError"
    ELSE IF resp.status \in {500, 502, 503} \/ resp.history > 0
         THEN "ConnectionError"
    ELSE "UnexpectedResponse"

\* The cookie mending of login (the POST) and of _request_json: a response
\* that carries the AUTH_COOKIE has its expiry blanked and is committed.
MendCookie(jar, resp) ==
    IF resp.cookie.present
    THEN [present |-> TRUE, value |-> resp.cookie.value, expires |-> ""]
    ELSE jar

-----------------------------------------------------------------------------
(* Pure parts of Device.                                                   *)

FAN_MODES == <<"auto", "on", "circulate", "follow schedule">>
SYSTEM_MODES == <<"emheat", "heat", "off", "cool", "auto", "auto">>
HOLD_TYPES == <<"schedule", "temporary", "permanent">>

\* x in list
Contains(list, x) == \E i \in 1..Len(list) : list[i] = x

\* list.index(x): the position, from 0, of the first x.
IndexOf(list, x) ==
    (CHOOSE i \in 1..Len(list) :
        list[i] = x /\ \A j \in 1..(i - 1) : list[j] # x) - 1

\* str.title() on the names of the modes.
Title(mode) ==
    CASE mode = "auto" -> "Auto"
      [] mode = "on" -> "On"
      [] mode = "circulate" -> "Circulate"
      [] mode = "follow schedule" -> "Follow Schedule"
      [] mode = "emheat" -> "Emheat"
      [] mode = "heat" -> "Heat"
      [] mode = "off" -> "Off"
      [] mode = "cool" -> "Cool"
      [] OTHER -> mode

\* dict.update: d with the items of u written over it.
Update(d, u) ==
    [k \in DOMAIN d \cup DOMAIN u |-> IF k \in DOMAIN u THEN u[k] ELSE d[k]]

\* An optional argument is a sequence: <<>> is None, <<v>> is the value v.
None == <<>>
Some(v) == <<v>>

\* The truth value of an optional number: None and 0 are false.
Truthy(x) == x # None /\ x[1] # 0

\* What a hold is set to and read as: True, False, a datetime.time, or (set
\* only) a value of another type.
HoldBool(b) == [kind |-> "bool", flag |-> b, hour |-> 0, minute |-> 0]
HoldTime(h, m) == [kind |-> "time", flag |-> FALSE, hour |-> h, minute |-> m]
HoldOther == [kind |-> "other", flag |-> FALSE, hour |-> 0, minute |-> 0]

\* _hold_quarter_hours, where it does not raise.
HoldQuarterHours(deadline) == ((deadline.hour * 60) + deadline.minute) \div 15

\* _hold_quarter_hours raises.
HoldQuarterHoursRaises(deadline) == deadline.minute \notin {0, 15, 30, 45}

\* _hold_deadline that keeps the hour and drops the minutes.
HoldDeadline_HourOnly(quarter_hours) ==
    HoldTime((quarter_hours * 15) \div 60, 0)

\* _hold_deadline.
HoldDeadline(quarter_hours) ==
    HoldTime((quarter_hours * 15) \div 60, (quarter_hours * 15) % 60)

\* _get_hold that reads a permanent hold as its deadline.
GetHold_PermanentAsDeadline(ui, which) ==
    LET hold == HOLD_TYPES[ui["Status" \o which] + 1]
        period == ui[which \o "NextPeriod"]
    IN  IF hold = "schedule" THEN HoldBool(FALSE)
        ELSE HoldDeadline(period)

\* Device._get_hold.
GetHold(ui, which) ==
    LET hold == HOLD_TYPES[ui["Status" \o which] + 1]
        period == ui[which \o "NextPeriod"]
    IN  IF hold = "schedule" THEN HoldBool(FALSE)
        ELSE IF hold = "permanent" THEN HoldBool(TRUE)
        ELSE HoldDeadline(period)

\* The truth value of what _get_hold returns: a datetime.time is true.
Holding(ui, which) ==
    LET hold == GetHold(ui, which)
    IN  IF hold.kind = "bool" THEN hold.flag ELSE TRUE

\* What a command has worked out when it reaches (or fails to reach) its
\* request: the exception it raises, the settings it sends and what it
\* writes to uiData and to fanData once the server has accepted them.
Rejected(exc) == [error |-> exc, settings |-> <<>>, ui |-> <<>>, fan |-> <<>>]
Command(settings, ui, fan) ==
    [error |-> "none", settings |-> settings, ui |-> ui, fan |-> fan]

\* A setpoint command that adds the temporary hold whatever the sides hold.
PromoteHold_Always(ui) ==
    [StatusCool |-> IndexOf(HOLD_TYPES, "temporary"),
     StatusHeat |-> IndexOf(HOLD_TYPES, "temporary")]

\* set_setpoint_cool and set_setpoint_heat, lines 175-179 and 210-214: the
\* hold status a setpoint command adds.
PromoteHold(ui) ==
    IF ~Holding(ui, "Heat") /\ ~Holding(ui, "Cool")
    THEN [StatusCool |-> IndexOf(HOLD_TYPES, "temporary"),
          StatusHeat |-> IndexOf(HOLD_TYPES, "temporary")]
    ELSE <<>>

\* Device.set_setpoint_cool, up to its request.
SetSetpointCool(ui, temp) ==
    LET lower == ui["CoolLowerSetptLimit"]
        upper == ui["CoolUpperSetptLimit"]
        deadband == ui["Deadband"]
        heatsp == ui["HeatSetpoint"]
    IN  IF temp = None THEN Rejected("TypeError")
        ELSE IF temp[1] > upper \/ temp[1] < lower
        THEN Rejected("SomeComfortError")
        ELSE Command(
               Update([CoolSetpoint |-> temp[1],
                       HeatSetpoint |->
                          IF deadband > 0 /\ (heatsp + deadband) >= temp[1]
                          THEN temp[1] - deadband ELSE heatsp],
                      PromoteHold(ui)),
               [CoolSetpoint |-> temp[1]], <<>>)

\* set_setpoint_heat without the deadband push of lines 204-207: the cool
\* setpoint always goes out at its cached value.
SetSetpointHeat_NoPush(ui, temp0) ==
    LET lower == ui["HeatLowerSetptLimit"]
        upper == ui["HeatUpperSetptLimit"]
        temp == IF temp0 = None THEN ui["HeatSetpoint"] ELSE temp0[1]
    IN  IF temp > upper \/ temp < lower
        THEN Rejected("SomeComfortError")
        ELSE Command(
               Update([HeatSetpoint |-> temp, CoolSetpoint |-> ui["CoolSetpoint"]],
                      PromoteHold(ui)),
               [HeatSetpoint |-> temp], <<>>)

\* Device.set_setpoint_heat, up to its request.
SetSetpointHeat(ui, temp0) ==
    LET lower == ui["HeatLowerSetptLimit"]
        upper == ui["HeatUpperSetptLimit"]
        deadband == ui["Deadband"]
        coolsp == ui["CoolSetpoint"]
        temp == IF temp0 = None THEN ui["HeatSetpoint"] ELSE temp0[1]
    IN  IF temp > upper \/ temp < lower
        THEN Rejected("SomeComfortError")
        ELSE Command(
               Update([HeatSetpoint |-> temp,
                       CoolSetpoint |->
                          IF deadband > 0 /\ (coolsp - deadband) <= temp
                          THEN temp + deadband ELSE coolsp],
                      PromoteHold(ui)),
               [HeatSetpoint |-> temp], <<>>)

\* _set_hold that sets a temporary hold where False asks for the schedule.
HoldSettings_FalseIsTemporary(hold) ==
    IF hold.kind = "bool" /\ hold.flag
    THEN [StatusCool |-> IndexOf(HOLD_TYPES, "permanent"),
          StatusHeat |-> IndexOf(HOLD_TYPES, "permanent")]
    ELSE [StatusCool |-> IndexOf(HOLD_TYPES, "temporary"),
          StatusHeat |-> IndexOf(HOLD_TYPES, "temporary")]

\* _set_hold that sets the heat side alone.
HoldSettings_HeatOnly(hold) ==
    IF hold.kind = "bool" /\ hold.flag
    THEN [StatusHeat |-> IndexOf(HOLD_TYPES, "permanent")]
    ELSE IF hold.kind = "bool"
    THEN [StatusHeat |-> IndexOf(HOLD_TYPES, "schedule")]
    ELSE [StatusHeat |-> IndexOf(HOLD_TYPES, "temporary"),
          HeatNextPeriod |-> HoldQuarterHours(hold)]

\* Device._set_hold, lines 236-256: the hold status and the deadline.
HoldSettings(hold) ==
    IF hold.kind = "bool" /\ hold.flag
    THEN [StatusCool |-> IndexOf(HOLD_TYPES, "permanent"),
          StatusHeat |-> IndexOf(HOLD_TYPES, "permanent")]
    ELSE IF hold.kind = "bool"
    THEN [StatusCool |-> IndexOf(HOLD_TYPES, "schedule"),
          StatusHeat |-> IndexOf(HOLD_TYPES, "schedule")]
    ELSE [StatusCool |-> IndexOf(HOLD_TYPES, "temporary"),
          CoolNextPeriod |-> HoldQuarterHours(hold),
          StatusHeat |-> IndexOf(HOLD_TYPES, "temporary"),
          HeatNextPeriod |-> HoldQuarterHours(hold)]

\* Device._set_hold, lines 257-269: the setpoints that go with the hold.
HoldSetpoints(ui, which, temperature) ==
    LET deadband == ui["Deadband"]
        coolsp == ui["CoolSetpoint"]
        heatsp == ui["HeatSetpoint"]
        pushed ==
            IF which = "Heat" /\ deadband > 0 /\ (coolsp - deadband) <= temperature
            THEN [CoolSetpoint |-> temperature + deadband]
            ELSE IF which = "Cool" /\ deadband > 0
                    /\ (heatsp + deadband) >= temperature
            THEN [HeatSetpoint |-> temperature - deadband]
            ELSE <<>>
    IN  Update(pushed, ((which \o "Setpoint") :> temperature))

\* Device._set_hold, up to its request.
SetHold(ui, which, hold, temperature) ==
    IF hold.kind = "other" THEN Rejected("SomeComfortError")
    ELSE IF hold.kind = "time" /\ HoldQuarterHoursRaises(hold)
    THEN Rejected("SomeComfortError")
    ELSE IF Truthy(temperature)
            /\ (temperature[1] > ui[which \o "UpperSetptLimit"]
                \/ temperature[1] < ui[which \o "LowerSetptLimit"])
    THEN Rejected("SomeComfortError")
    ELSE LET settings ==
                IF Truthy(temperature)
                THEN Update(HoldSettings(hold),
                            HoldSetpoints(ui, which, temperature[1]))
                ELSE HoldSettings(hold)
         IN  Command(settings, settings, <<>>)

\* Device.set_fan_mode, up to its request.
SetFanMode(fanData, mode) ==
    LET key == "fanMode" \o Title(mode) \o "Allowed"
    IN  IF ~Contains(FAN_MODES, mode) THEN Rejected("SomeComfortError")
        ELSE IF key \notin DOMAIN fanData THEN Rejected("KeyError")
        ELSE IF ~fanData[key] THEN Rejected("SomeComfortError")
        ELSE Command([FanMode |-> IndexOf(FAN_MODES, mode)], <<>>,
                     [fanMode |-> IndexOf(FAN_MODES, mode)])

\* Device.set_system_mode, up to its request.
SetSystemMode(ui, mode) ==
    LET key == IF mode = "emheat" THEN "SwitchEmergencyHeatAllowed"
               ELSE "Switch" \o Title(mode) \o "Allowed"
    IN  IF ~Contains(SYSTEM_MODES, mode) THEN Rejected("SomeComfortError")
        ELSE IF key \notin DOMAIN ui THEN Rejected("APIError")
        ELSE IF ~ui[key] THEN Rejected("SomeComfortError")
        ELSE Command([SystemSwitch |-> IndexOf(SYSTEM_MODES, mode)],
                     [SystemSwitchPosition |-> IndexOf(SYSTEM_MODES, mode)],
                     <<>>)

\* list[i] as Python reads it: from 0, a negative index counting from the
\* end, and IndexError outside the list.
ListItem(list, i) ==
    IF i \in 0..(Len(list) - 1)
    THEN [raises |-> "none", value |-> Some(list[i + 1])]
    ELSE IF i \in (0 - Len(list))..(0 - 1)
    THEN [raises |-> "none", value |-> Some(list[Len(list) + i + 1])]
    ELSE [raises |-> "IndexError", value |-> None]

\* The property system_mode, lines 125-133: the name at the cached switch
\* position; only a KeyError becomes an APIError.
system_mode_Shifted(data) ==
    ListItem(SYSTEM_MODES,
             (data.uiData["SystemSwitchPosition"] + 1) % Len(SYSTEM_MODES))

system_mode(data) ==
    IF "SystemSwitchPosition" \notin DOMAIN data.uiData
    THEN [raises |-> "APIError", value |-> None]
    ELSE ListItem(SYSTEM_MODES, data.uiData["SystemSwitchPosition"])

\* The property fan_mode, lines 99-108: the name at the cached fan mode; a
\* missing key or an index outside the list raises APIError on a device
\* with a fan, gives None on one without, and the handler itself raises
\* KeyError on a block that does not say.
fan_mode(data) ==
    LET read == IF "fanMode" \notin DOMAIN data.fanData
                THEN [raises |-> "KeyError", value |-> None]
                ELSE ListItem(FAN_MODES, data.fanData["fanMode"])
    IN  IF read.raises = "none" THEN read
        ELSE IF "hasFan" \notin DOMAIN data
        THEN [raises |-> "KeyError", value |-> None]
        ELSE IF data["hasFan"] THEN [raises |-> "APIError", value |-> None]
        ELSE [raises |-> "none", value |-> None]

\* set_thermostat_settings, lines 235-247: the JSON body.  A field that is
\* sent as null is a key the body does not have.
ThermostatSettings(thermostat_id, settings) ==
    Update([DeviceID |-> thermostat_id], settings)

\* What the server may answer to a command: the response and, when it is
\* JSON, the value it decodes to.
CommandResponses ==
    {[status |-> 200, content_type |-> JsonType, history |-> 0,
      cookie |-> NoCookie, body |-> "success: 1"],
     [status |-> 200, content_type |-> JsonType, history |-> 0,
      cookie |-> NoCookie, body |-> "success: 0"],
     [status |-> 200, content_type |-> JsonType, history |-> 0,
      cookie |-> NoCookie, body |-> "null"],
     [status |-> 200, content_type |-> BinaryType, history |-> 0,
      cookie |-> NoCookie, body |-> ""],
     [status |-> 401, content_type |-> HtmlType, history |-> 0,
      cookie |-> NoCookie, body |-> ""],
     [status |-> 500, content_type |-> HtmlType, history |-> 0,
      cookie |-> NoCookie, body |-> ""]}

\* set_thermostat_settings, lines 250-253: how the command ends.  A binary
\* response is returned as it is, and has no get().
SetThermostatSettingsOutcome(resp) ==
    IF RequestJsonOutcome(resp) # "ok" THEN RequestJsonOutcome(resp)
    ELSE IF resp.content_type # JsonType THEN "AttributeError"
    ELSE IF resp.body = "null" \/ resp.body # "success: 1" THEN "APIError"
    ELSE "ok"

\* The humidifier and dehumidifier mutators, after their request: a JSON
\* null is rejected, any other decoded JSON value has no attribute ok, and a
\* binary response is the response itself, whose ok is true at status 200.
SetHumidityOutcome(resp) ==
    IF RequestJsonOutcome(resp) # "ok" THEN RequestJsonOutcome(resp)
    ELSE IF resp.content_type = JsonType
    THEN IF resp.body = "null" THEN "APIError" ELSE "AttributeError"
    ELSE "ok"

-----------------------------------------------------------------------------
(* The device caches the server may have reported.                         *)

\* The allowed-flags of fanData and of uiData: a device that allows every
\* mode, and one that reports some flags false and leaves others out.
FanFlagSets ==
    <<[k \in {"fanModeAutoAllowed", "fanModeOnAllowed", "fanModeCirculateAllowed",
              "fanModeFollow ScheduleAllowed"} |-> TRUE],
      [fanModeAutoAllowed |-> TRUE, fanModeOnAllowed |-> FALSE]>>

SystemFlagSets ==
    <<[k \in {"SwitchEmergencyHeatAllowed", "SwitchHeatAllowed", "SwitchOffAllowed",
              "SwitchCoolAllowed", "SwitchAutoAllowed"} |-> TRUE],
      [SwitchHeatAllowed |-> TRUE, SwitchOffAllowed |-> TRUE,
       SwitchCoolAllowed |-> FALSE]>>

\* The step of the humidity setpoints.
HUMIDITY_STEP == 5

\* _humidity_step: round() of a whole number of percent over the step; a
\* whole number over 5 is never halfway between two integers.
HumidityStep(value) ==
    HUMIDITY_STEP * ((2 * value + HUMIDITY_STEP) \div (2 * HUMIDITY_STEP))

\* The extended block that get_data has read: the humidifier and the
\* dehumidifier, each with its setpoint, its mode (1 auto, 0 off) and its
\* limits.
GData ==
    [Humidifier |-> [Setpoint |-> 35, Mode |-> 0,
                     UpperLimit |-> 60, LowerLimit |-> 10],
     Dehumidifier |-> [Setpoint |-> 50, Mode |-> 1,
                       UpperLimit |-> 80, LowerLimit |-> 40]]

\* A device whose cache holds what one refresh has read.
Device(heat, cool, deadband, status_heat, status_cool, flags) ==
    [deviceid |-> "d1",
     uiData |->
        Update([HeatSetpoint |-> heat, CoolSetpoint |-> cool,
                HeatLowerSetptLimit |-> 1, HeatUpperSetptLimit |-> MaxTemp - 1,
                CoolLowerSetptLimit |-> 2, CoolUpperSetptLimit |-> MaxTemp,
                Deadband |-> deadband,
                StatusHeat |-> status_heat, StatusCool |-> status_cool,
                HeatNextPeriod |-> 0, CoolNextPeriod |-> 0,
                SystemSwitchPosition |-> IndexOf(SYSTEM_MODES, "off")],
               SystemFlagSets[flags]),
     fanData |-> Update([fanMode |-> IndexOf(FAN_MODES, "auto")],
                        FanFlagSets[flags]),
     gdata |-> GData]

\* Every cache within the limits: the server reports the setpoints and the
\* hold status of each side as they are, and a setpoint command writes its
\* own side alone.
Devices ==
    {Device(heat, cool, deadband, status_heat, status_cool, flags) :
        heat \in 1..(MaxTemp - 1), cool \in 2..MaxTemp,
        deadband \in 0..MaxDeadband,
        status_heat \in 0..2, status_cool \in 0..2, flags \in {1, 2}}

\* The device of the deadband scenario: cool 75, heat 68, deadband 3.
ScenarioDevice ==
    [Device(1, 2, 0, 0, 0, 1) EXCEPT
        !.uiData = Update(@, [HeatSetpoint |-> 68, CoolSetpoint |-> 75,
                              Deadband |-> 3,
                              HeatLowerSetptLimit |-> 40,
                              HeatUpperSetptLimit |-> 90,
                              CoolLowerSetptLimit |-> 50,
                              CoolUpperSetptLimit |-> 99])]

\* What the callers pass.
TempArgs == {None} \cup {Some(temp) : temp \in 0..(MaxTemp + 1)} \cup {Some(74)}
HoldArgs == {HoldBool(TRUE), HoldBool(FALSE), HoldTime(23, 45), HoldTime(10, 7),
             HoldOther}
FanModeArgs == {"auto", "on", "circulate", "follow schedule", "turbo"}
SystemModeArgs == {"emheat", "heat", "off", "cool", "auto", "dry"}
HumidityArgs == {33, 40}

-----------------------------------------------------------------------------
(* Tasks.                                                                  *)

\* A coroutine of the caller: the operation it runs, where it is suspended,
\* how the operation ended, the responses it holds, the requests it has
\* sent, the header map as it was when the operation was called, the
\* arguments of a device command, what the command writes to the cache
\* once the server has accepted it, and, while the operation runs, the
\* device cache as it was when the operation was called.
NewTask ==
    [op |-> "none", pc |-> "ready", outcome |-> "none",
     resp |-> NoResp, resp2 |-> NoResp, sent |-> <<>>, headers0 |-> InitHeaders,
     args |-> <<>>, commit |-> <<>>, cache0 |-> <<>>]

Call(op, pc, sent) ==
    [op |-> op, pc |-> pc, outcome |-> "none",
     resp |-> NoResp, resp2 |-> NoResp, sent |-> sent, headers0 |-> headers,
     args |-> <<>>, commit |-> <<>>, cache0 |-> dev]

\* The call of a device command: it raises, or sends its request.
CallCommand(op, args, thermostat_id, cmd) ==
    IF cmd.error # "none"
    THEN [Call(op, "ready", <<>>) EXCEPT !.args = args, !.outcome = cmd.error]
    ELSE [Call(op, "command",
               <<JsonRequest("POST", "/portal/Device/SubmitControlScreenChanges",
                             headers,
                             ThermostatSettings(thermostat_id, cmd.settings))>>)
            EXCEPT !.args = args, !.commit = [ui |-> cmd.ui, fan |-> cmd.fan]]

Raise(tk, exc) ==
    [tk EXCEPT !.pc = "ready", !.outcome = ConvertErrors(exc, "await"),
               !.cache0 = <<>>]

Return(tk) == [tk EXCEPT !.pc = "ready", !.outcome = "ok", !.cache0 = <<>>]

Failures ==
    {"APIRateLimited", "AuthError", "ConnectionError", "UnauthorizedError",
     "UnexpectedResponse", "ClientError"}

\* The exceptions of exceptions.py: SomeComfortError and its subclasses.
SomeComfortErrors ==
    {"SomeComfortError", "ConnectionTimeout", "ConnectionError", "AuthError",
     "APIError", "APIRateLimited", "SessionTimedOut", "ServiceUnavailable",
     "UnexpectedResponse", "UnauthorizedError"}

-----------------------------------------------------------------------------
(* The initial state: AIOSomeComfort.__init__.                             *)

InitSession ==
    /\ now = 0
    /\ next_login = now
    /\ null_cookie_count = 0
    /\ headers = InitHeaders
    /\ counter = 0
    /\ locations = <<>>
    /\ cookie_jar = NoCookie

InitDevice == Device(1, MaxTemp, 0, 0, 0, 1)

Init ==
    /\ InitSession
    /\ dev = InitDevice
    /\ task = [t \in {1} |-> NewTask]
    /\ failed_logins = 0

-----------------------------------------------------------------------------
(* The clock.                                                              *)

Tick ==
    /\ now + TickStep <= MaxTime
    /\ now' = now + TickStep
    /\ UNCHANGED <<next_login, null_cookie_count, headers, counter, locations,
                   cookie_jar, dev, task, failed_logins>>

-----------------------------------------------------------------------------
(* AIOSomeComfort.login.                                                   *)

\* Lines 72-88: the Content-Type is set, then the gate is tried, then the
\* POST is sent and the coroutine suspends.
LoginCall(t) ==
    /\ task[t].pc = "ready"
    /\ null_cookie_count < MaxFail
    /\ headers' = SetHeader(headers, "Content-Type", FormType)
    /\ IF RateLimited(next_login, now)
       THEN task' = [task EXCEPT ![t] = Raise(Call("login", "ready", <<>>),
                                              "APIRateLimited")]
       ELSE task' = [task EXCEPT ![t] =
                        Call("login", "login_post",
                             <<Request("POST", "/portal", headers')>>)]
    /\ UNCHANGED <<now, next_login, null_cookie_count, counter, locations,
                   cookie_jar, dev, failed_logins>>

\* Lines 89-112: the POST is answered.
LoginPostResponse(t) ==
    /\ task[t].pc = "login_post"
    /\ \E resp \in LoginResponses :
        LET tk == [task[t] EXCEPT !.resp = resp]
            nc == SetNullCount(null_cookie_count, next_login, now)
        IN  /\ cookie_jar' = MendCookie(cookie_jar, resp)
            /\ CASE LoginPostOutcome(resp) = "AuthError" ->
                      /\ null_cookie_count' = nc.count
                      /\ next_login' = nc.next_login
                      /\ task' = [task EXCEPT ![t] = Raise(tk, "AuthError")]
                      /\ failed_logins' = failed_logins + 1
                      /\ UNCHANGED headers
                 [] LoginPostOutcome(resp) = "ConnectionError" ->
                      /\ task' = [task EXCEPT ![t] = Raise(tk, "ConnectionError")]
                      /\ UNCHANGED <<null_cookie_count, next_login, headers,
                                     failed_logins>>
                 [] OTHER ->
                      /\ headers' = SetHeader(headers, "Content-Type", JsonType)
                      /\ task' = [task EXCEPT ![t] =
                            [tk EXCEPT !.pc = "login_get",
                                       !.sent = Append(@,
                                          Request("GET", "/portal", headers'))]]
                      /\ UNCHANGED <<null_cookie_count, next_login, failed_logins>>
    /\ UNCHANGED <<now, counter, locations, dev>>

\* Lines 114-136: the confirming GET is answered.
LoginGetResponse(t) ==
    /\ task[t].pc = "login_get"
    /\ \E resp2 \in LoginResponses :
        LET tk == [task[t] EXCEPT !.resp2 = resp2]
            nc == SetNullCount(null_cookie_count, next_login, now)
        IN  CASE LoginConfirmOutcome(resp2) = "AuthError" ->
                   /\ null_cookie_count' = nc.count
                   /\ next_login' = nc.next_login
                   /\ task' = [task EXCEPT ![t] = Raise(tk, "AuthError")]
                   /\ failed_logins' = failed_logins + 1
              [] LoginConfirmOutcome(resp2) = "ConnectionError" ->
                   /\ task' = [task EXCEPT ![t] = Raise(tk, "ConnectionError")]
                   /\ UNCHANGED <<null_cookie_count, next_login, failed_logins>>
              [] OTHER ->
                   /\ task' = [task EXCEPT ![t] = Return(tk)]
                   /\ failed_logins' = 0
                   /\ UNCHANGED <<null_cookie_count, next_login>>
    /\ UNCHANGED <<now, headers, counter, locations, cookie_jar, dev>>

\* The transport fails while the POST or the GET is awaited.
LoginTransportError(t) ==
    /\ task[t].pc \in {"login_post", "login_get"}
    /\ task' = [task EXCEPT ![t] = Raise(task[t], "ClientError")]
    /\ UNCHANGED <<now, next_login, null_cookie_count, headers, counter,
                   locations, cookie_jar, dev, failed_logins>>

-----------------------------------------------------------------------------
(* AIOSomeComfort._request_json, through get_data.                         *)

\* Lines 210-213, 148-154: the request is sent with the shared header map.
FetchCall(t) ==
    /\ task[t].pc = "ready"
    /\ task' = [task EXCEPT ![t] =
                  Call("get_data", "fetch",
                       <<Request("POST", "/portal/Device/Menu/GetData", headers)>>)]
    /\ UNCHANGED <<now, next_login, null_cookie_count, headers, counter,
                   locations, cookie_jar, dev, failed_logins>>

\* Lines 156-186: the response is classified.
FetchResponse(t) ==
    /\ task[t].pc = "fetch"
    /\ \E resp \in FetchResponses :
        LET tk == [task[t] EXCEPT !.resp = resp]
        IN  /\ cookie_jar' = MendCookie(cookie_jar, resp)
            /\ IF RequestJsonOutcome(resp) = "ok"
               THEN /\ null_cookie_count' = 0
                    /\ failed_logins' = 0
                    /\ task' = [task EXCEPT ![t] = Return(tk)]
               ELSE /\ task' = [task EXCEPT ![t] =
                                  Raise(tk, RequestJsonOutcome(resp))]
                    /\ UNCHANGED <<null_cookie_count, failed_logins>>
    /\ UNCHANGED <<now, next_login, headers, counter, locations, dev>>

\* The transport fails while the request is awaited.
FetchTransportError(t) ==
    /\ task[t].pc = "fetch"
    /\ task' = [task EXCEPT ![t] = Raise(task[t], "ClientError")]
    /\ UNCHANGED <<now, next_login, null_cookie_count, headers, counter,
                   locations, cookie_jar, dev, failed_logins>>

-----------------------------------------------------------------------------
(* The session under one caller.                                           *)

Next ==
    \/ Tick
    \/ \E t \in DOMAIN task : LoginCall(t)
    \/ \E t \in DOMAIN task : LoginPostResponse(t)
    \/ \E t \in DOMAIN task : LoginGetResponse(t)
    \/ \E t \in DOMAIN task : LoginTransportError(t)
    \/ \E t \in DOMAIN task : FetchCall(t)
    \/ \E t \in DOMAIN task : FetchResponse(t)
    \/ \E t \in DOMAIN task : FetchTransportError(t)

Spec == Init /\ [][Next]_vars

-----------------------------------------------------------------------------
(* The commands of Device.                                                 *)

\* A command is called: it raises, or sends its request and suspends.  A
\* coroutine of the caller runs one command, on the cache as it finds it.
DeviceCall(t, op, args, cmd) ==
    /\ task[t].pc = "ready"
    /\ task[t].op = "none"
    /\ task' = [task EXCEPT ![t] = CallCommand(op, args, dev.deviceid, cmd)]
    /\ UNCHANGED <<now, next_login, null_cookie_count, headers, counter,
                   locations, cookie_jar, dev, failed_logins>>

set_setpoint_cool(t) ==
    \E temp \in TempArgs :
        DeviceCall(t, "set_setpoint_cool", <<temp>>,
                   SetSetpointCool(dev.uiData, temp))

set_setpoint_heat(t) ==
    \E temp \in TempArgs :
        DeviceCall(t, "set_setpoint_heat", <<temp>>,
                   SetSetpointHeat(dev.uiData, temp))

set_hold_heat(t) ==
    \E value \in HoldArgs, temperature \in TempArgs :
        DeviceCall(t, "set_hold_heat", <<value, temperature>>,
                   SetHold(dev.uiData, "Heat", value, temperature))

set_hold_cool(t) ==
    \E value \in HoldArgs, temperature \in TempArgs :
        DeviceCall(t, "set_hold_cool", <<value, temperature>>,
                   SetHold(dev.uiData, "Cool", value, temperature))

set_fan_mode(t) ==
    \E mode \in FanModeArgs :
        DeviceCall(t, "set_fan_mode", <<mode>>, SetFanMode(dev.fanData, mode))

set_system_mode(t) ==
    \E mode \in SystemModeArgs :
        DeviceCall(t, "set_system_mode", <<mode>>,
                   SetSystemMode(dev.uiData, mode))

\* A humidifier or dehumidifier mutator is called: data is the cached block
\* itself, so update() writes to the cache, and then the block is sent.
HumidityCall(t, op, args, which, change) ==
    /\ task[t].pc = "ready"
    /\ task[t].op = "none"
    /\ dev' = [dev EXCEPT !.gdata[which] = Update(@, change)]
    /\ task' = [task EXCEPT ![t] =
                  [Call(op, "humidity",
                        <<JsonRequest("POST", "/portal/Device/Menu/" \o which,
                                      headers, dev'.gdata[which])>>)
                     EXCEPT !.args = args]]
    /\ UNCHANGED <<now, next_login, null_cookie_count, headers, counter,
                   locations, cookie_jar, failed_logins>>

set_humidifier_setpoint(t) ==
    \E humidity \in HumidityArgs :
        HumidityCall(t, "set_humidifier_setpoint", <<humidity>>, "Humidifier",
                     [Setpoint |-> HumidityStep(humidity)])

set_humidifier_auto(t) ==
    HumidityCall(t, "set_humidifier_auto", <<>>, "Humidifier", [Mode |-> 1])

set_humidifier_off(t) ==
    HumidityCall(t, "set_humidifier_off", <<>>, "Humidifier", [Mode |-> 0])

set_dehumidifier_setpoint(t) ==
    \E humidity \in HumidityArgs :
        HumidityCall(t, "set_dehumidifier_setpoint", <<humidity>>,
                     "Dehumidifier", [Setpoint |-> HumidityStep(humidity)])

set_dehumidifier_auto(t) ==
    HumidityCall(t, "set_dehumidifier_auto", <<>>, "Dehumidifier", [Mode |-> 1])

set_dehumidifier_off(t) ==
    HumidityCall(t, "set_dehumidifier_off", <<>>, "Dehumidifier", [Mode |-> 0])

\* The mutator is answered: _request_json classifies the response and the
\* mutator reads the result.
HumidityResponse(t) ==
    /\ task[t].pc = "humidity"
    /\ \E resp \in CommandResponses :
        LET tk == [task[t] EXCEPT !.resp = resp]
            outcome == SetHumidityOutcome(resp)
        IN  /\ cookie_jar' = MendCookie(cookie_jar, resp)
            /\ IF RequestJsonOutcome(resp) = "ok"
               THEN null_cookie_count' = 0 /\ failed_logins' = 0
               ELSE UNCHANGED <<null_cookie_count, failed_logins>>
            /\ task' = [task EXCEPT ![t] =
                          IF outcome = "ok" THEN Return(tk) ELSE Raise(tk, outcome)]
    /\ UNCHANGED <<now, next_login, headers, counter, locations, dev>>

\* The transport fails while the mutator's request is awaited.
HumidityTransportError(t) ==
    /\ task[t].pc = "humidity"
    /\ task' = [task EXCEPT ![t] = Raise(task[t], "ClientError")]
    /\ UNCHANGED <<now, next_login, null_cookie_count, headers, counter,
                   locations, cookie_jar, dev, failed_logins>>

\* The command is answered: _request_json classifies the response,
\* set_thermostat_settings reads the result, and the command that sent it
\* writes to the cache.
CommandResponse(t) ==
    /\ task[t].pc = "command"
    /\ \E resp \in CommandResponses :
        LET tk == [task[t] EXCEPT !.resp = resp, !.commit = <<>>]
            outcome == SetThermostatSettingsOutcome(resp)
        IN  /\ cookie_jar' = MendCookie(cookie_jar, resp)
            /\ IF RequestJsonOutcome(resp) = "ok"
               THEN null_cookie_count' = 0 /\ failed_logins' = 0
               ELSE UNCHANGED <<null_cookie_count, failed_logins>>
            /\ IF outcome = "ok"
               THEN /\ dev' = [dev EXCEPT
                                !.uiData = Update(@, task[t].commit.ui),
                                !.fanData = Update(@, task[t].commit.fan)]
                    /\ task' = [task EXCEPT ![t] = Return(tk)]
               ELSE /\ task' = [task EXCEPT ![t] = Raise(tk, outcome)]
                    /\ UNCHANGED dev
    /\ UNCHANGED <<now, next_login, headers, counter, locations>>

\* The transport fails while the command is awaited.
CommandTransportError(t) ==
    /\ task[t].pc = "command"
    /\ task' = [task EXCEPT ![t] = Raise([task[t] EXCEPT !.commit = <<>>],
                                         "ClientError")]
    /\ UNCHANGED <<now, next_login, null_cookie_count, headers, counter,
                   locations, cookie_jar, dev, failed_logins>>

\* A device under one caller.
InitDevices ==
    /\ InitSession
    /\ dev \in Devices \cup {ScenarioDevice}
    /\ task = [t \in {1} |-> NewTask]
    /\ failed_logins = 0

NextDevice ==
    \/ \E t \in DOMAIN task : set_setpoint_cool(t)
    \/ \E t \in DOMAIN task : set_setpoint_heat(t)
    \/ \E t \in DOMAIN task : set_hold_heat(t)
    \/ \E t \in DOMAIN task : set_hold_cool(t)
    \/ \E t \in DOMAIN task : set_fan_mode(t)
    \/ \E t \in DOMAIN task : set_system_mode(t)
    \/ \E t \in DOMAIN task : CommandResponse(t)
    \/ \E t \in DOMAIN task : CommandTransportError(t)
    \/ \E t \in DOMAIN task : set_humidifier_setpoint(t)
    \/ \E t \in DOMAIN task : set_humidifier_auto(t)
    \/ \E t \in DOMAIN task : set_humidifier_off(t)
    \/ \E t \in DOMAIN task : set_dehumidifier_setpoint(t)
    \/ \E t \in DOMAIN task : set_dehumidifier_auto(t)
    \/ \E t \in DOMAIN task : set_dehumidifier_off(t)
    \/ \E t \in DOMAIN task : HumidityResponse(t)
    \/ \E t \in DOMAIN task : HumidityTransportError(t)

SpecDevice == InitDevices /\ [][NextDevice]_vars

-----------------------------------------------------------------------------
(* Hold deadlines: every time of day.                                      *)

\* The hours and the minutes of a datetime.time.
Hours == 0..23
Minutes == 0..59

set_hold_heat_until(t) ==
    \E hour \in Hours, minute \in Minutes :
        DeviceCall(t, "set_hold_heat", <<HoldTime(hour, minute), None>>,
                   SetHold(dev.uiData, "Heat", HoldTime(hour, minute), None))

set_hold_cool_until(t) ==
    \E hour \in Hours, minute \in Minutes :
        DeviceCall(t, "set_hold_cool", <<HoldTime(hour, minute), None>>,
                   SetHold(dev.uiData, "Cool", HoldTime(hour, minute), None))

NextHoldTimes ==
    \/ \E t \in DOMAIN task : set_hold_heat_until(t)
    \/ \E t \in DOMAIN task : set_hold_cool_until(t)
    \/ \E t \in DOMAIN task : CommandResponse(t)
    \/ \E t \in DOMAIN task : CommandTransportError(t)

SpecHoldTimes == Init /\ [][NextHoldTimes]_vars

-----------------------------------------------------------------------------
(* A caller that awaits set_hold_heat(False) and then awaits it again.     *)

\* The calls the caller makes one after the other.
Callers == {1, 2}

set_hold_heat_false(t) ==
    /\ \A u \in DOMAIN task :
          u < t => task[u].op # "none" /\ task[u].pc = "ready"
    /\ DeviceCall(t, "set_hold_heat", <<HoldBool(FALSE), None>>,
                  SetHold(dev.uiData, "Heat", HoldBool(FALSE), None))

InitTwice ==
    /\ InitSession
    /\ dev \in Devices \cup {ScenarioDevice}
    /\ task = [t \in Callers |-> NewTask]
    /\ failed_logins = 0

NextTwice ==
    \/ \E t \in DOMAIN task : set_hold_heat_false(t)
    \/ \E t \in DOMAIN task : CommandResponse(t)
    \/ \E t \in DOMAIN task : CommandTransportError(t)

SpecTwice == InitTwice /\ [][NextTwice]_vars

-----------------------------------------------------------------------------
(* AIOSomeComfort.logoff.                                                  *)

\* The POST is sent with the shared header map.
LogoffCall(t) ==
    /\ task[t].pc = "ready"
    /\ task' = [task EXCEPT ![t] =
                  Call("logoff", "logoff",
                       <<Request("POST", "/portal/Account/LogOff", headers)>>)]
    /\ UNCHANGED <<now, next_login, null_cookie_count, headers, counter,
                   locations, cookie_jar, dev, failed_logins>>

\* The answer is logged, whatever it is.
LogoffResponse(t) ==
    /\ task[t].pc = "logoff"
    /\ \E resp \in LoginResponses :
        task' = [task EXCEPT ![t] = Return([task[t] EXCEPT !.resp = resp])]
    /\ UNCHANGED <<now, next_login, null_cookie_count, headers, counter,
                   locations, cookie_jar, dev, failed_logins>>

\* The transport fails while the POST is awaited.
LogoffTransportError(t) ==
    /\ task[t].pc = "logoff"
    /\ task' = [task EXCEPT ![t] = Raise(task[t], "ClientError")]
    /\ UNCHANGED <<now, next_login, null_cookie_count, headers, counter,
                   locations, cookie_jar, dev, failed_logins>>

-----------------------------------------------------------------------------
(* Device.refresh.                                                         *)

\* What the server reports of the device: the live block and the extended
\* block.
Reported == Device(2, MaxTemp, 1, 0, 0, 1)

\* What the server may answer to get_thermostat_data and to get_data: the
\* response and, when it is JSON, the value it decodes to.
RefreshResponses ==
    {[status |-> 200, content_type |-> JsonType, history |-> 0,
      cookie |-> NoCookie, body |-> "data"],
     [status |-> 200, content_type |-> JsonType, history |-> 0,
      cookie |-> NoCookie, body |-> "null"],
     [status |-> 200, content_type |-> BinaryType, history |-> 0,
      cookie |-> NoCookie, body |-> ""],
     [status |-> 401, content_type |-> HtmlType, history |-> 0,
      cookie |-> NoCookie, body |-> ""],
     [status |-> 500, content_type |-> HtmlType, history |-> 0,
      cookie |-> NoCookie, body |-> ""]}

\* An extended block that names neither a humidifier nor a dehumidifier.
PlainGData == [Fan |-> [Mode |-> 0]]

\* The extended blocks get_data may decode.
ReportedGData == {Reported.gdata, PlainGData}

\* What refresh does about the extended block it holds, line 68: None and
\* the empty dict are false, so the block is pulled; a binary response that
\* get_data has returned is true and has no get(); a dict is pulled again
\* when it holds a humidifier or a dehumidifier.
ExtendedPull_Always(gdata) == "pull"

ExtendedPull(gdata) ==
    IF DOMAIN gdata = {} THEN "pull"
    ELSE IF "response" \in DOMAIN gdata THEN "AttributeError"
    ELSE IF "Humidifier" \in DOMAIN gdata \/ "Dehumidifier" \in DOMAIN gdata
    THEN "pull"
    ELSE "skip"

\* get_thermostat_data, lines 217-218: the URL takes the counter as it is,
\* and the counter is advanced before the request is awaited.
GetThermostatData_NoAdvance(cnt) == [seq |-> cnt, counter |-> cnt]

GetThermostatData(cnt) == [seq |-> cnt, counter |-> cnt + 1]

\* The polling request: the GET of the thermostat data with its sequence
\* value.
PollRequest(hs, seq) ==
    [method |-> "GET", path |-> "/portal/Device/CheckDataSession",
     content_type |-> ContentTypeOf(hs), json |-> <<>>, seq |-> seq]

\* refresh: the rate-limit gate.
RefreshLimited_NoGate(nl, t) == FALSE

RefreshLimited(nl, t) == nl > t

\* Lines 58-60 and get_thermostat_data: the gate is tried, then the
\* sequence counter is advanced and the GET is sent.
RefreshCall(t) ==
    /\ task[t].pc = "ready"
    /\ counter < MaxCounter
    /\ IF RefreshLimited(next_login, now)
       THEN /\ task' = [task EXCEPT ![t] =
                          Raise(Call("refresh", "ready", <<>>), "APIRateLimited")]
            /\ UNCHANGED counter
       ELSE /\ task' = [task EXCEPT ![t] =
                          Call("refresh", "refresh",
                               <<PollRequest(headers,
                                             GetThermostatData(counter).seq)>>)]
            /\ counter' = GetThermostatData(counter).counter
    /\ UNCHANGED <<now, next_login, null_cookie_count, headers, locations,
                   cookie_jar, dev, failed_logins>>

\* Lines 60-68: the thermostat data is answered.  A JSON null ends the
\* refresh; a binary response has no get(); data is written to the live
\* block and, when the extended block held asks for it, get_data is sent.
RefreshResponse(t) ==
    /\ task[t].pc = "refresh"
    /\ \E resp \in RefreshResponses :
        LET tk == [task[t] EXCEPT !.resp = resp]
        IN  /\ cookie_jar' = MendCookie(cookie_jar, resp)
            /\ IF RequestJsonOutcome(resp) = "ok"
               THEN null_cookie_count' = 0 /\ failed_logins' = 0
               ELSE UNCHANGED <<null_cookie_count, failed_logins>>
            /\ IF RequestJsonOutcome(resp) # "ok"
               THEN /\ task' = [task EXCEPT ![t] =
                                  Raise(tk, RequestJsonOutcome(resp))]
                    /\ UNCHANGED dev
               ELSE IF resp.content_type # JsonType
               THEN /\ task' = [task EXCEPT ![t] = Raise(tk, "AttributeError")]
                    /\ UNCHANGED dev
               ELSE IF resp.body = "null"
               THEN /\ task' = [task EXCEPT ![t] = Return(tk)]
                    /\ UNCHANGED dev
               ELSE /\ dev' = [dev EXCEPT !.uiData = Reported.uiData,
                                          !.fanData = Reported.fanData]
                    /\ task' = [task EXCEPT ![t] =
                         CASE ExtendedPull(dev.gdata) = "pull" ->
                                [tk EXCEPT !.pc = "refresh_data",
                                           !.sent = Append(@,
                                              Request("POST",
                                                      "/portal/Device/Menu/GetData",
                                                      headers))]
                           [] ExtendedPull(dev.gdata) = "skip" -> Return(tk)
                           [] OTHER -> Raise(tk, ExtendedPull(dev.gdata))]
    /\ UNCHANGED <<now, next_login, headers, counter, locations>>

\* Line 69: get_data is answered, and what it returns is the extended
\* block: the decoded value (None, here <<>>, for a JSON null) or the binary
\* response.
RefreshDataResponse(t) ==
    /\ task[t].pc = "refresh_data"
    /\ \E resp2 \in RefreshResponses, reported \in ReportedGData :
        LET tk == [task[t] EXCEPT !.resp2 = resp2]
        IN  /\ cookie_jar' = MendCookie(cookie_jar, resp2)
            /\ IF RequestJsonOutcome(resp2) = "ok"
               THEN /\ null_cookie_count' = 0
                    /\ failed_logins' = 0
                    /\ dev' = [dev EXCEPT !.gdata =
                                  IF resp2.content_type # JsonType
                                  THEN [response |-> resp2.status]
                                  ELSE IF resp2.body = "data" THEN reported
                                  ELSE <<>>]
                    /\ task' = [task EXCEPT ![t] = Return(tk)]
               ELSE /\ task' = [task EXCEPT ![t] =
                                  Raise(tk, RequestJsonOutcome(resp2))]
                    /\ UNCHANGED <<null_cookie_count, failed_logins, dev>>
    /\ UNCHANGED <<now, next_login, headers, counter, locations>>

\* The transport fails while a request of refresh is awaited.
RefreshTransportError(t) ==
    /\ task[t].pc \in {"refresh", "refresh_data"}
    /\ task' = [task EXCEPT ![t] = Raise(task[t], "ClientError")]
    /\ UNCHANGED <<now, next_login, null_cookie_count, headers, counter,
                   locations, cookie_jar, dev, failed_logins>>

-----------------------------------------------------------------------------
(* AIOSomeComfort.discover.                                                *)

\* The raw location records the server lists: two well-formed ones, the
\* first with a device, one without LocationID and one without Devices.
RawL1 == [LocationID |-> "L1", Devices |-> <<"d1">>]
RawL2 == [LocationID |-> "L2", Devices |-> <<>>]
RawNoLocationID == [Devices |-> <<>>]
RawNoDevices == [LocationID |-> "L3"]
RawLocations == {RawL1, RawL2, RawNoLocationID, RawNoDevices}

\* How the refresh of a device that discovery constructs may end, once it
\* is past the gate.
DiscoveryRefreshes == {"ok", "ConnectionError"}

\* Location.from_api_response: a missing key raises KeyError; each device
\* of the record is constructed and refreshed, and a refresh that raises
\* ends the construction.  fetched counts the calls of get_thermostat_data.
FromApiResponse(api_response, limited, refresh) ==
    IF "LocationID" \notin DOMAIN api_response
            \/ "Devices" \notin DOMAIN api_response
    THEN [error |-> "KeyError", fetched |-> 0, location |-> None]
    ELSE IF api_response["Devices"] = <<>>
    THEN [error |-> "none", fetched |-> 0,
          location |-> Some([locationid |-> api_response["LocationID"],
                             devices |-> <<>>])]
    ELSE IF limited
    THEN [error |-> "APIRateLimited", fetched |-> 0, location |-> None]
    ELSE IF refresh # "ok"
    THEN [error |-> refresh, fetched |-> 1, location |-> None]
    ELSE [error |-> "none", fetched |-> Len(api_response["Devices"]),
          location |-> Some([locationid |-> api_response["LocationID"],
                             devices |-> api_response["Devices"]])]

\* discover, lines 259-268: the loop over raw_locations from record i on,
\* with the registry, the local variable location (None while unbound) and
\* the count of fetches so far.  A KeyError is logged and the loop body
\* goes on to register whatever location is bound to.
RECURSIVE DiscoverLoop(_, _, _, _, _, _, _)
DiscoverLoop(raw_locations, i, registry, location, fetched, limited, refresh) ==
    IF i > Len(raw_locations)
    THEN [outcome |-> "ok", registry |-> registry, fetched |-> fetched]
    ELSE LET made == FromApiResponse(raw_locations[i], limited, refresh)
             bound == IF made.error = "none" THEN made.location ELSE location
             count == fetched + made.fetched
         IN  IF made.error \notin {"none", "KeyError"}
             THEN [outcome |-> made.error, registry |-> registry,
                   fetched |-> count]
             ELSE IF bound = None
             THEN [outcome |-> "UnboundLocalError", registry |-> registry,
                   fetched |-> count]
             ELSE DiscoverLoop(raw_locations, i + 1,
                               Update(registry, (bound[1].locationid :> bound[1])),
                               bound, count, limited, refresh)

\* discover, lines 257-268, after _get_locations: an empty list is None and
\* nothing is done.
Discover(raw_locations, registry, limited, refresh) ==
    IF raw_locations = <<>>
    THEN [outcome |-> "ok", registry |-> registry, fetched |-> 0]
    ELSE DiscoverLoop(raw_locations, 1, registry, None, 0, limited, refresh)

\* _get_locations, line 197: the pages it asks for, in order.
Pages == <<1, 2, 3, 4>>

\* The request for one page of the location list, lines 198-199.
PageRequest(hs, page) ==
    [method |-> "POST", path |-> "/portal/Location/GetLocationListData/",
     content_type |-> ContentTypeOf(hs), json |-> <<>>, page |-> page]

\* What the server may answer to a page: a JSON list of no record or of
\* one, or a page of another content type, whatever it holds.
PageResponses ==
    [status : {200}, content_type : {JsonType}, history : {0},
     cookie : RespCookies,
     records : {<<>>} \cup {<<r>> : r \in RawLocations}]
    \cup
    [status : {200}, content_type : {HtmlType}, history : {0},
     cookie : RespCookies, records : {<<RawL1>>}]

\* Lines 200-201: what a page adds to json_responses.
PageRecords_AnyContent(resp) == resp.records

PageRecords(resp) ==
    IF resp.content_type = JsonType THEN resp.records ELSE <<>>

\* _get_locations starts with an empty json_responses and sends the first
\* page of the location list.
DiscoverCall(t) ==
    /\ task[t].pc = "ready"
    /\ counter < MaxCounter
    /\ task' = [task EXCEPT ![t] =
                  [Call("discover", "pages", <<PageRequest(headers, Pages[1])>>)
                     EXCEPT !.args = << <<>> >>]]
    /\ UNCHANGED <<now, next_login, null_cookie_count, headers, counter,
                   locations, cookie_jar, dev, failed_logins>>

\* Lines 199-205: a page before the last is answered, its records are
\* added, its cookie is mended, and the next page is sent.
DiscoverPageResponse(t) ==
    /\ task[t].pc = "pages"
    /\ Len(task[t].sent) < Len(Pages)
    /\ \E resp \in PageResponses :
        LET json_responses == task[t].args[1] \o PageRecords(resp)
        IN  /\ Len(json_responses) <= MaxLocations
            /\ cookie_jar' = MendCookie(cookie_jar, resp)
            /\ task' = [task EXCEPT ![t] =
                          [@ EXCEPT !.args = <<json_responses>>,
                                    !.resp = resp,
                                    !.sent = Append(@,
                                        PageRequest(headers,
                                                    Pages[Len(@) + 1]))]]
    /\ UNCHANGED <<now, next_login, null_cookie_count, headers, counter,
                   locations, dev, failed_logins>>

\* The last page is answered, its records added and its cookie mended, and
\* the loop of discover runs over the records the pages have listed.
DiscoverResponse(t) ==
    /\ task[t].pc = "pages"
    /\ Len(task[t].sent) = Len(Pages)
    /\ \E resp \in PageResponses, refresh \in DiscoveryRefreshes :
        LET raw_locations == task[t].args[1] \o PageRecords(resp)
            done == Discover(raw_locations, locations,
                             RefreshLimited(next_login, now), refresh)
            tk == [task[t] EXCEPT !.args = <<raw_locations, refresh>>,
                                  !.resp = resp]
        IN  /\ Len(raw_locations) <= MaxLocations
            /\ cookie_jar' = MendCookie(cookie_jar, resp)
            /\ locations' = done.registry
            /\ counter' = counter + done.fetched
            /\ task' = [task EXCEPT ![t] =
                          IF done.outcome = "ok" THEN Return(tk)
                          ELSE Raise(tk, done.outcome)]
    /\ UNCHANGED <<now, next_login, null_cookie_count, headers, dev,
                   failed_logins>>

\* The transport fails while a page is awaited.
DiscoverTransportError(t) ==
    /\ task[t].pc = "pages"
    /\ task' = [task EXCEPT ![t] = Raise(task[t], "ClientError")]
    /\ UNCHANGED <<now, next_login, null_cookie_count, headers, counter,
                   locations, cookie_jar, dev, failed_logins>>

\* A session that is fresh, or on which three logins in a row have been
\* answered with 401 at time 0.
InitDiscover ==
    /\ now = 0
    /\ \E limited \in BOOLEAN :
        /\ null_cookie_count = IF limited THEN MAX_LOGIN_ATTEMPTS ELSE 0
        /\ failed_logins = null_cookie_count
        /\ next_login = IF limited THEN now + MIN_LOGIN_TIME ELSE now
        /\ headers = IF limited
                     THEN SetHeader(InitHeaders, "Content-Type", FormType)
                     ELSE InitHeaders
    /\ counter = 0
    /\ locations = <<>>
    /\ cookie_jar = NoCookie
    /\ dev = InitDevice
    /\ task = [t \in {1} |-> NewTask]

\* Discovery under one caller, as time passes.
NextDiscover ==
    \/ Tick
    \/ \E t \in DOMAIN task : DiscoverCall(t)
    \/ \E t \in DOMAIN task : DiscoverPageResponse(t)
    \/ \E t \in DOMAIN task : DiscoverResponse(t)
    \/ \E t \in DOMAIN task : DiscoverTransportError(t)

SpecDiscover == InitDiscover /\ [][NextDiscover]_vars

\* Refresh under one caller, as time passes.
NextRefresh ==
    \/ Tick
    \/ \E t \in DOMAIN task : RefreshCall(t)
    \/ \E t \in DOMAIN task : RefreshResponse(t)
    \/ \E t \in DOMAIN task : RefreshDataResponse(t)
    \/ \E t \in DOMAIN task : RefreshTransportError(t)

SpecRefresh == InitDiscover /\ [][NextRefresh]_vars

\* The operations that _convert_errors decorates, under one caller.
NextTransport ==
    \/ \E t \in DOMAIN task : LoginCall(t)
    \/ \E t \in DOMAIN task : LoginPostResponse(t)
    \/ \E t \in DOMAIN task : LoginGetResponse(t)
    \/ \E t \in DOMAIN task : LoginTransportError(t)
    \/ \E t \in DOMAIN task : LogoffCall(t)
    \/ \E t \in DOMAIN task : LogoffResponse(t)
    \/ \E t \in DOMAIN task : LogoffTransportError(t)
    \/ \E t \in DOMAIN task : DiscoverCall(t)
    \/ \E t \in DOMAIN task : DiscoverPageResponse(t)
    \/ \E t \in DOMAIN task : DiscoverResponse(t)
    \/ \E t \in DOMAIN task : DiscoverTransportError(t)

SpecTransport == Init /\ [][NextTransport]_vars

\* Two coroutines of the caller that poll, interleaved where they await.
InitPoll ==
    /\ InitSession
    /\ dev = InitDevice
    /\ task = [t \in Callers |-> NewTask]
    /\ failed_logins = 0

NextPoll ==
    \/ \E t \in DOMAIN task : RefreshCall(t)
    \/ \E t \in DOMAIN task : RefreshResponse(t)
    \/ \E t \in DOMAIN task : RefreshDataResponse(t)
    \/ \E t \in DOMAIN task : RefreshTransportError(t)

SpecPoll == InitPoll /\ [][NextPoll]_vars

-----------------------------------------------------------------------------
(* Steps of a task, as the properties below name them.                     *)

\* Task t is called with operation op in this step.
Calls(t, op) ==
    /\ task[t].pc = "ready"
    /\ task'[t] # task[t]
    /\ task'[t].op = op

\* Task t's operation ends in this step, whatever the way.
Ends(t) ==
    /\ task'[t].pc = "ready"
    /\ task'[t].outcome # "none"
    /\ task'[t] # task[t]

\* The login of task t ends in this step with an AuthError that
\* _set_null_count has counted.
LoginAuthFails(t) ==
    /\ task[t].pc \in {"login_post", "login_get"}
    /\ task'[t].pc = "ready"
    /\ task'[t].outcome = "AuthError"

\* The backoff rule, for the step of a failure counted at time now.
BackoffRule ==
    /\ null_cookie_count' = null_cookie_count + 1
    /\ next_login' = IF null_cookie_count' >= 3
                     THEN now + 10 ELSE next_login

-----------------------------------------------------------------------------
(* C1: a login called while the clock is before next_login ends at once    *)
(* with APIRateLimited and has sent no request, neither the POST nor the   *)
(* GET.                                                                    *)
C1_RateLimitedLoginSendsNothing ==
    [][\A t \in DOMAIN task :
        (Calls(t, "login") /\ now < next_login)
        => /\ task'[t].pc = "ready"
           /\ task'[t].outcome = "APIRateLimited"
           /\ task'[t].sent = <<>>]_vars

C1_Witness ==
    \E t \in DOMAIN task :
        /\ task[t].op = "login"
        /\ task[t].outcome = "APIRateLimited"
        /\ task[t].sent = <<>>
        /\ now < next_login

(* C2: the third login in a row that fails sets next_login to the time of  *)
(* that failure plus 10 minutes, and a failure that is the first or the    *)
(* second in a row leaves next_login as it was.  A row of failures ends    *)
(* with a login or a fetch that succeeds.                                  *)
C2_ThreeConsecutiveFailures ==
    [][\A t \in DOMAIN task :
        LoginAuthFails(t)
        => IF failed_logins' >= 3
           THEN next_login' = now + 10
           ELSE next_login' = next_login]_vars

(* C3, as claimed: every answer to the login POST other than 200 is        *)
(* counted and ends the login with AuthError.                              *)
C3_EveryNon200IsAuthError ==
    [][\A t \in DOMAIN task :
        (task[t].pc = "login_post" /\ task'[t].resp # NoResp
            /\ task'[t].resp.status # 200)
        => /\ task'[t].outcome = "AuthError"
           /\ null_cookie_count' = null_cookie_count + 1]_vars

(* C3, amended: a 401 answer to the login POST is counted (under the       *)
(* backoff rule) and ends the login with AuthError; any other answer that  *)
(* is not 200 ends it with ConnectionError and leaves the failure counter  *)
(* and next_login as they were.                                            *)
C3_Only401IsAuthError ==
    [][\A t \in DOMAIN task :
        (task[t].pc = "login_post" /\ task'[t].resp # NoResp)
        => /\ task'[t].resp.status = 401
                => task'[t].outcome = "AuthError" /\ BackoffRule
           /\ task'[t].resp.status \notin {200, 401}
                => /\ task'[t].outcome = "ConnectionError"
                   /\ null_cookie_count' = null_cookie_count
                   /\ next_login' = next_login
           /\ task'[t].resp.status = 200
                => /\ task'[t].pc = "login_get"
                   /\ null_cookie_count' = null_cookie_count
                   /\ next_login' = next_login]_vars

C3_Witness ==
    \E t \in DOMAIN task :
        /\ task[t].op = "login"
        /\ task[t].pc = "ready"
        /\ task[t].resp.status = 500
        /\ task[t].outcome = "ConnectionError"
        /\ null_cookie_count = 2

(* C4: when the POST was answered 200 and the confirming GET carries the   *)
(* authentication cookie with an empty value, the login ends with          *)
(* AuthError and the failure is counted under the backoff rule, whatever   *)
(* the status of the GET.                                                  *)
C4_EmptyCookieIsAuthError ==
    [][\A t \in DOMAIN task :
        (task[t].pc = "login_get" /\ task'[t].resp2 # NoResp
            /\ task'[t].resp2.cookie.present
            /\ task'[t].resp2.cookie.value = "")
        => /\ task[t].resp.status = 200
           /\ task'[t].pc = "ready"
           /\ task'[t].outcome = "AuthError"
           /\ BackoffRule]_vars

C4_Witness ==
    \E t \in DOMAIN task :
        /\ task[t].op = "login"
        /\ task[t].resp.status = 200
        /\ task[t].resp2.status = 500
        /\ task[t].resp2.cookie.present
        /\ task[t].resp2.cookie.value = ""
        /\ task[t].outcome = "AuthError"
        /\ next_login = now + 10

C6_SuccessResetsCounter ==
    [][\A t \in DOMAIN task :
        (Ends(t) /\ task'[t].outcome = "ok")
        => null_cookie_count' = 0]_vars

(* C7: when a login or an authenticated fetch fails, the header map is as  *)
(* it was when the operation was called, and so are the registry and the   *)
(* request-sequence counter.                                               *)
C7_FailureLeavesHeaders ==
    [][\A t \in DOMAIN task :
        (Ends(t) /\ task'[t].outcome \in Failures)
        => /\ headers' = task'[t].headers0
           /\ locations' = locations
           /\ counter' = counter]_vars

(* C8: the authenticated fetch classifies every response into one outcome: *)
(* 200 with a JSON or binary content type is a success and resets the      *)
(* failure counter; else 401 or 403 is UnauthorizedError; else 500, 502,   *)
(* 503 or a redirect history is ConnectionError; anything else (200 with   *)
(* another content type too) is UnexpectedResponse.  No failure touches    *)
(* the failure counter.                                                    *)
C8_FetchClassification ==
    [][\A t \in DOMAIN task :
        (task[t].pc = "fetch" /\ task'[t].resp # NoResp)
        => LET r == task'[t].resp
               o == task'[t].outcome
               success == r.status = 200
                            /\ r.content_type \in {"application/json",
                                                   "application/octet-stream"}
               unauthorized == ~success /\ r.status \in {401, 403}
               unavailable == /\ ~success
                              /\ ~unauthorized
                              /\ (r.status \in {500, 502, 503} \/ r.history > 0)
           IN  /\ task'[t].pc = "ready"
               /\ success <=> o = "ok"
               /\ unauthorized <=> o = "UnauthorizedError"
               /\ unavailable <=> o = "ConnectionError"
               /\ (~success /\ ~unauthorized /\ ~unavailable)
                    <=> o = "UnexpectedResponse"
               /\ null_cookie_count' = IF success THEN 0 ELSE null_cookie_count]_vars

C8_Witness ==
    \E t \in DOMAIN task :
        /\ task[t].op = "get_data"
        /\ task[t].pc = "ready"
        /\ task[t].resp.status = 200
        /\ task[t].resp.content_type = "text/html"
        /\ task[t].resp.history = 0
        /\ task[t].outcome = "UnexpectedResponse"
        /\ null_cookie_count > 0

-----------------------------------------------------------------------------
(* What the arguments of a device command ask for.                         *)

\* The request a command has sent, and its JSON body.
CommandSent(tk) == tk.sent[1].json

\* temp is a number outside the limits the device reports for a side.
OutsideLimits(ui, which, temp) ==
    /\ temp # None
    /\ \/ temp[1] < ui[which \o "LowerSetptLimit"]
       \/ temp[1] > ui[which \o "UpperSetptLimit"]

\* temp is a number within the limits the device reports for a side.
WithinLimits(ui, which, temp) ==
    /\ temp # None
    /\ temp[1] >= ui[which \o "LowerSetptLimit"]
    /\ temp[1] <= ui[which \o "UpperSetptLimit"]

\* The device's flags do not allow the mode: the flag is false or missing.
NotAllowed(flags, key) == key \notin DOMAIN flags \/ ~flags[key]

\* The call is one that local validation has to refuse.
FailsValidation(d, op, args) ==
    \/ op = "set_setpoint_heat" /\ OutsideLimits(d.uiData, "Heat", args[1])
    \/ op = "set_setpoint_cool" /\ OutsideLimits(d.uiData, "Cool", args[1])
    \/ op = "set_hold_heat" /\ OutsideLimits(d.uiData, "Heat", args[2])
    \/ op = "set_hold_cool" /\ OutsideLimits(d.uiData, "Cool", args[2])
    \/ op \in {"set_hold_heat", "set_hold_cool"}
        /\ args[1].kind = "time" /\ args[1].minute \notin {0, 15, 30, 45}
    \/ op = "set_fan_mode"
        /\ \/ args[1] \notin {"auto", "on", "circulate", "follow schedule"}
           \/ NotAllowed(d.fanData, "fanMode" \o Title(args[1]) \o "Allowed")
    \/ op = "set_system_mode"
        /\ \/ args[1] \notin {"emheat", "heat", "off", "cool", "auto"}
           \/ NotAllowed(d.uiData,
                         IF args[1] = "emheat" THEN "SwitchEmergencyHeatAllowed"
                         ELSE "Switch" \o Title(args[1]) \o "Allowed")

DeviceOps ==
    {"set_setpoint_heat", "set_setpoint_cool", "set_hold_heat", "set_hold_cool",
     "set_fan_mode", "set_system_mode"}

(* C9: a command that local validation has to refuse (a setpoint or a hold *)
(* temperature outside the side's limits, a fan or system mode that is     *)
(* unknown or not allowed, a hold deadline off the quarter hour) ends at   *)
(* once with an error of the SomeComfortError class, sends no request and  *)
(* leaves the device cache as it was.                                      *)
C9_ValidationNeverSends ==
    [][\A t \in DOMAIN task :
        (task[t].op = "none" /\ task'[t].op \in DeviceOps
            /\ FailsValidation(dev, task'[t].op, task'[t].args))
        => /\ task'[t].pc = "ready"
           /\ task'[t].outcome \in SomeComfortErrors
           /\ task'[t].sent = <<>>
           /\ dev' = dev]_vars

(* C10: for a target t within the limits and a deadband d > 0,             *)
(* set_setpoint_heat(t) sends one command with HeatSetpoint = t, and with  *)
(* CoolSetpoint = t + d when cached cool - t < d and the cached cool when  *)
(* cached cool - t > d; set_setpoint_cool(t) sends one command with        *)
(* CoolSetpoint = t, and with HeatSetpoint = t - d when t - cached heat    *)
(* < d and the cached heat when t - cached heat > d.  With cool 75, heat   *)
(* 68 and deadband 3, set_setpoint_heat(74) sends HeatSetpoint 74 and      *)
(* CoolSetpoint 77.                                                        *)
C10_DeadbandPush ==
    [][\A t \in DOMAIN task :
        LET ui == dev.uiData
            d == ui["Deadband"]
            op == task'[t].op
            temp == task'[t].args[1]
            body == CommandSent(task'[t])
        IN  /\ (task[t].op = "none" /\ op = "set_setpoint_heat" /\ d > 0
                    /\ WithinLimits(ui, "Heat", temp))
                => /\ Len(task'[t].sent) = 1
                   /\ body["HeatSetpoint"] = temp[1]
                   /\ ui["CoolSetpoint"] - temp[1] < d
                        => body["CoolSetpoint"] = temp[1] + d
                   /\ ui["CoolSetpoint"] - temp[1] > d
                        => body["CoolSetpoint"] = ui["CoolSetpoint"]
                   /\ (ui["CoolSetpoint"] = 75 /\ ui["HeatSetpoint"] = 68
                            /\ d = 3 /\ temp[1] = 74)
                        => body["HeatSetpoint"] = 74 /\ body["CoolSetpoint"] = 77
            /\ (task[t].op = "none" /\ op = "set_setpoint_cool" /\ d > 0
                    /\ WithinLimits(ui, "Cool", temp))
                => /\ Len(task'[t].sent) = 1
                   /\ body["CoolSetpoint"] = temp[1]
                   /\ temp[1] - ui["HeatSetpoint"] < d
                        => body["HeatSetpoint"] = temp[1] - d
                   /\ temp[1] - ui["HeatSetpoint"] > d
                        => body["HeatSetpoint"] = ui["HeatSetpoint"]]_vars

C10_Witness ==
    \E t \in DOMAIN task :
        /\ task[t].op = "set_setpoint_heat"
        /\ task[t].args = <<Some(74)>>
        /\ dev.uiData["CoolSetpoint"] = 75
        /\ dev.uiData["Deadband"] = 3
        /\ Len(task[t].sent) = 1
        /\ CommandSent(task[t])["HeatSetpoint"] = 74
        /\ CommandSent(task[t])["CoolSetpoint"] = 77
        /\ task[t].outcome = "ok"
        /\ dev.uiData["HeatSetpoint"] = 74

-----------------------------------------------------------------------------
(* The cache of a device across a command.                                 *)

SetpointOps == {"set_setpoint_heat", "set_setpoint_cool"}
HoldOps == {"set_hold_heat", "set_hold_cool"}

\* The command of task t is accepted by the server in this step.
CommandSucceeds(t) ==
    /\ task[t].pc = "command"
    /\ task'[t].pc = "ready"
    /\ task'[t].outcome = "ok"

\* The request of task t's command or mutator fails in this step: the
\* fetch raises or the answer is rejected.
CommandFailsRemotely(t) ==
    /\ task[t].pc \in {"command", "humidity"}
    /\ task'[t].pc = "ready"
    /\ task'[t].outcome # "ok"

\* The heat setpoint is not above the cool setpoint, and the gap between
\* them is at least the deadband.
Separated(ui) ==
    /\ ui["HeatSetpoint"] <= ui["CoolSetpoint"]
    /\ ui["CoolSetpoint"] - ui["HeatSetpoint"] >= ui["Deadband"]

\* The cached field a field of the command body is kept in.
CachedAs(d, k) ==
    IF k = "SystemSwitch" THEN d.uiData["SystemSwitchPosition"]
    ELSE IF k = "FanMode" THEN d.fanData["fanMode"]
    ELSE d.uiData[k]

\* The fields of the live block whose value differs between d1 and d2.
ChangedFields(d1, d2) ==
    {k \in DOMAIN d1.uiData \cup DOMAIN d2.uiData :
        k \notin DOMAIN d1.uiData \/ k \notin DOMAIN d2.uiData
            \/ d1.uiData[k] # d2.uiData[k]}
    \cup (IF d1.fanData # d2.fanData THEN {"FanMode"} ELSE {})

(* C11: from a cache in which setpoint_heat <= setpoint_cool with a gap of *)
(* at least the deadband, every successful set_setpoint_heat,              *)
(* set_setpoint_cool and set_hold call leaves a cache in which that holds. *)
C11_SetpointsStaySeparated ==
    [][\A t \in DOMAIN task :
        (CommandSucceeds(t) /\ task[t].op \in SetpointOps \cup HoldOps
            /\ Separated(dev.uiData))
        => Separated(dev'.uiData)]_vars

(* C12: after a successful setpoint, hold, fan-mode or system-mode command *)
(* the cache holds the value sent for every field of the command body that *)
(* is not null, and no cached field has changed to anything else.          *)
C12_CacheHoldsWhatWasSent ==
    [][\A t \in DOMAIN task :
        CommandSucceeds(t)
        => LET body == CommandSent(task[t])
               fields == DOMAIN body \ {"DeviceID"}
           IN  /\ \A k \in fields : CachedAs(dev', k) = body[k]
               /\ \A k \in ChangedFields(dev, dev') :
                    \E f \in fields :
                        /\ k = (IF f = "SystemSwitch" THEN "SystemSwitchPosition"
                                ELSE f)
                        /\ CachedAs(dev', f) = body[f]
               /\ dev'.gdata = dev.gdata]_vars

(* C13: when the request of a setpoint, hold, fan-mode or system-mode      *)
(* command or of a humidifier or dehumidifier mutator fails (the fetch     *)
(* raises, the answer is null, or it is rejected), the cached live block   *)
(* and extended block are as they were before the call.                    *)
C13_RemoteFailureLeavesCache ==
    [][\A t \in DOMAIN task :
        CommandFailsRemotely(t) => dev' = task[t].cache0]_vars

-----------------------------------------------------------------------------
(* Holds.                                                                  *)

\* The side a hold command sets.
SideOf(op) == IF op = "set_hold_heat" THEN "Heat" ELSE "Cool"

(* C14: after a successful set_hold on a side, reading the side's hold     *)
(* returns False when False was set (following schedule), True when True   *)
(* was set (permanent), and the same time of day when a time on a quarter  *)
(* hour was set (temporary, with that deadline).                           *)
C14_HoldReadsBackAsSet ==
    [][\A t \in DOMAIN task :
        (CommandSucceeds(t) /\ task[t].op \in HoldOps)
        => LET value == task[t].args[1]
               ui == dev'.uiData
               which == SideOf(task[t].op)
           IN  /\ value = HoldBool(FALSE)
                    => /\ GetHold(ui, which) = HoldBool(FALSE)
                       /\ HOLD_TYPES[ui["Status" \o which] + 1] = "schedule"
               /\ value = HoldBool(TRUE)
                    => /\ GetHold(ui, which) = HoldBool(TRUE)
                       /\ HOLD_TYPES[ui["Status" \o which] + 1] = "permanent"
               /\ value.kind = "time"
                    => /\ GetHold(ui, which) = value
                       /\ HOLD_TYPES[ui["Status" \o which] + 1] = "temporary"]_vars

C14_Witness ==
    \E t \in DOMAIN task :
        /\ task[t].op = "set_hold_cool"
        /\ task[t].args[1] = HoldTime(23, 45)
        /\ task[t].outcome = "ok"
        /\ GetHold(dev.uiData, "Cool") = HoldTime(23, 45)

(* C15: for every time of day, hour 0..23 and minute 0..59: with a minute  *)
(* not in {0, 15, 30, 45} the hold fails validation and no request is      *)
(* sent; otherwise the deadline is sent as quarter_hours =                 *)
(* (hour*60+minute)/15, a value in 0..95, and decoding that value gives    *)
(* the same hour and minute.                                               *)
C15_QuarterHoursRoundTrip ==
    [][\A t \in DOMAIN task :
        (task[t].op = "none" /\ task'[t].op \in HoldOps
            /\ task'[t].args[1].kind = "time")
        => LET deadline == task'[t].args[1]
               field == SideOf(task'[t].op) \o "NextPeriod"
           IN  IF deadline.minute \notin {0, 15, 30, 45}
               THEN /\ task'[t].pc = "ready"
                    /\ task'[t].outcome \in SomeComfortErrors
                    /\ task'[t].sent = <<>>
               ELSE /\ Len(task'[t].sent) = 1
                    /\ LET quarter_hours == CommandSent(task'[t])[field]
                       IN  /\ quarter_hours \in 0..95
                           /\ quarter_hours * 15
                                = deadline.hour * 60 + deadline.minute
                           /\ HoldDeadline(quarter_hours) = deadline]_vars

C15_Witness ==
    \E t \in DOMAIN task :
        /\ task[t].op = "set_hold_heat"
        /\ task[t].args[1] = HoldTime(23, 45)
        /\ Len(task[t].sent) = 1
        /\ CommandSent(task[t])["HeatNextPeriod"] = 95
        /\ HoldDeadline(95) = HoldTime(23, 45)

\* Task t runs set_hold_heat(False).
IsSetHoldHeatFalse(tk) ==
    tk.op = "set_hold_heat" /\ tk.args = <<HoldBool(FALSE), None>>

\* An earlier set_hold_heat(False) of the caller has succeeded before t's.
CalledOnceBefore(t) ==
    \E u \in DOMAIN task :
        /\ u < t
        /\ IsSetHoldHeatFalse(task[u])
        /\ task[u].pc = "ready"
        /\ task[u].outcome = "ok"

(* C16: set_hold_heat(False) called again after it has succeeded once      *)
(* still sends one command request, and when it succeeds the cache is the  *)
(* one the first call left: following schedule.                            *)
C16_SetHoldFalseIdempotent ==
    [][\A t \in DOMAIN task :
        CalledOnceBefore(t)
        => /\ (task[t].op = "none" /\ IsSetHoldHeatFalse(task'[t]))
                => task'[t].pc = "command" /\ Len(task'[t].sent) = 1
           /\ (CommandSucceeds(t) /\ IsSetHoldHeatFalse(task[t]))
                => /\ dev' = dev
                   /\ GetHold(dev'.uiData, "Heat") = HoldBool(FALSE)]_vars

C16_Witness ==
    \E t \in DOMAIN task :
        /\ CalledOnceBefore(t)
        /\ IsSetHoldHeatFalse(task[t])
        /\ task[t].outcome = "ok"
        /\ Len(task[t].sent) = 1
        /\ GetHold(dev.uiData, "Heat") = HoldBool(FALSE)

-----------------------------------------------------------------------------
(* Discovery, refresh and the transport.                                   *)

\* The raw record has the keys from_api_response reads.
WellFormed(raw_location) ==
    "LocationID" \in DOMAIN raw_location /\ "Devices" \in DOMAIN raw_location

\* The LocationIDs of the well-formed records of a list.
WellFormedIds(raw_locations) ==
    {raw_locations[i]["LocationID"] :
        i \in {j \in 1..Len(raw_locations) : WellFormed(raw_locations[j])}}

\* The discover of task t gets its location list in this step and runs to
\* its end, with no device refresh failing on the way.
DiscoverRuns(t) ==
    /\ task[t].pc = "pages"
    /\ task'[t].pc = "ready"
    /\ Len(task'[t].args) = 2
    /\ task'[t].args[2] = "ok"
    /\ ~(next_login > now)

(* C17: when the location list holds a record without LocationID or        *)
(* without Devices next to well-formed records, in either order, discover  *)
(* does not raise, every well-formed location is registered under its own  *)
(* id, and no entry is added for the malformed record.                     *)
C17_MalformedRecordSkipped ==
    [][\A t \in DOMAIN task :
        LET raw_locations == task'[t].args[1]
        IN  (DiscoverRuns(t)
                /\ (\E i \in 1..Len(raw_locations) : ~WellFormed(raw_locations[i]))
                /\ (\E j \in 1..Len(raw_locations) : WellFormed(raw_locations[j])))
            => /\ task'[t].outcome = "ok"
               /\ \A i \in 1..Len(raw_locations) :
                    WellFormed(raw_locations[i])
                    => LET id == raw_locations[i]["LocationID"]
                       IN  /\ id \in DOMAIN locations'
                           /\ locations'[id].locationid = id
               /\ (DOMAIN locations') \ (DOMAIN locations)
                    \subseteq WellFormedIds(raw_locations)]_vars

(* C18: after a discover has completed, the registered LocationIDs are     *)
(* exactly the locations that call was given: one registered by an earlier *)
(* discovery and absent from this one, or an empty list, leaves nothing of *)
(* the earlier discovery registered.                                       *)
C18_RegistryRebuilt ==
    [][\A t \in DOMAIN task :
        LET raw_locations == task'[t].args[1]
        IN  (DiscoverRuns(t) /\ task'[t].outcome = "ok"
                /\ \A i \in 1..Len(raw_locations) : WellFormed(raw_locations[i]))
            => DOMAIN locations' = WellFormedIds(raw_locations)]_vars

(* C19: refresh called while the time is before the session's next_login   *)
(* fails with APIRateLimited, sends no request, and leaves the device      *)
(* cache and the request-sequence counter as they were.                    *)
C19_RefreshGated ==
    [][\A t \in DOMAIN task :
        (Calls(t, "refresh") /\ now < next_login)
        => /\ task'[t].pc = "ready"
           /\ task'[t].outcome = "APIRateLimited"
           /\ task'[t].sent = <<>>
           /\ dev' = dev
           /\ counter' = counter]_vars

C19_Witness ==
    \E t \in DOMAIN task :
        /\ task[t].op = "refresh"
        /\ task[t].pc = "ready"
        /\ task[t].outcome = "APIRateLimited"
        /\ task[t].sent = <<>>
        /\ now < next_login
        /\ counter = 0

(* C20: a transport failure while a request of login, logoff or discover   *)
(* is awaited reaches the caller as the library's ConnectionError, never   *)
(* as the exception of the transport.                                      *)
C20_TransportErrorsConverted ==
    [][\A t \in DOMAIN task :
        (Ends(t) /\ task'[t].op \in {"login", "logoff", "discover"})
        => task'[t].outcome # "ClientError"]_vars

-----------------------------------------------------------------------------
(* The authentication cookie.                                              *)

\* The cookie of a response as the client commits it: its expiry cleared.
Mended(cookie) == [present |-> TRUE, value |-> cookie.value, expires |-> ""]

(* C21: every response that carries the authentication cookie (the answer  *)
(* to the login POST, to the confirming GET, to a page of the location     *)
(* list, to an authenticated fetch) has the cookie's expiry cleared and    *)
(* the cookie committed to the cookie store.                               *)
C21_AuthCookieMended ==
    [][\A t \in DOMAIN task :
        /\ (task'[t].resp # task[t].resp /\ task'[t].resp.cookie.present)
            => cookie_jar' = Mended(task'[t].resp.cookie)
        /\ (task'[t].resp2 # task[t].resp2 /\ task'[t].resp2.cookie.present)
            => cookie_jar' = Mended(task'[t].resp2.cookie)]_vars

-----------------------------------------------------------------------------
(* What the commands carry.                                                *)

\* Task t sends a thermostat command in this step.
SendsCommand(t) ==
    /\ task[t].op = "none"
    /\ task'[t].pc = "command"

\* The hold of a side, by its status.
HoldType(ui, which) == HOLD_TYPES[ui["Status" \o which] + 1]

\* Every cached setpoint is within the limits the device reports.
CacheWithinLimits(ui) ==
    /\ WithinLimits(ui, "Heat", Some(ui["HeatSetpoint"]))
    /\ WithinLimits(ui, "Cool", Some(ui["CoolSetpoint"]))

(* C22: a setpoint command sent while both sides follow the schedule also  *)
(* carries StatusHeat and StatusCool set to temporary; sent while a side   *)
(* is in a temporary or permanent hold it carries neither status field.    *)
C22_SetpointPromotesHold ==
    [][\A t \in DOMAIN task :
        (SendsCommand(t) /\ task'[t].op \in SetpointOps)
        => LET body == CommandSent(task'[t])
               ui == dev.uiData
           IN  IF HoldType(ui, "Heat") = "schedule"
                    /\ HoldType(ui, "Cool") = "schedule"
               THEN /\ "StatusHeat" \in DOMAIN body
                    /\ "StatusCool" \in DOMAIN body
                    /\ HOLD_TYPES[body["StatusHeat"] + 1] = "temporary"
                    /\ HOLD_TYPES[body["StatusCool"] + 1] = "temporary"
               ELSE /\ "StatusHeat" \notin DOMAIN body
                    /\ "StatusCool" \notin DOMAIN body]_vars

C22_Witness ==
    \E t \in DOMAIN task :
        /\ task[t].op = "set_setpoint_cool"
        /\ task[t].pc = "command"
        /\ HoldType(dev.uiData, "Heat") = "schedule"
        /\ HoldType(dev.uiData, "Cool") = "schedule"
        /\ CommandSent(task[t])["StatusHeat"] = 1
        /\ CommandSent(task[t])["StatusCool"] = 1

(* C23: a command that sets a side's hold status to temporary carries that *)
(* side's deadline, a quarter-hour index in 0..95, in the same command;    *)
(* and a cached side whose status is temporary has a deadline in 0..95.    *)
C23_TemporaryCarriesDeadline ==
    [][\A t \in DOMAIN task :
        /\ SendsCommand(t)
            => LET body == CommandSent(task'[t])
               IN  \A which \in {"Heat", "Cool"} :
                     ("Status" \o which \in DOMAIN body
                        /\ HOLD_TYPES[body["Status" \o which] + 1] = "temporary")
                     => /\ which \o "NextPeriod" \in DOMAIN body
                        /\ body[which \o "NextPeriod"] \in 0..95
        /\ \A which \in {"Heat", "Cool"} :
             HoldType(dev'.uiData, which) = "temporary"
             => dev'.uiData[which \o "NextPeriod"] \in 0..95]_vars

(* C28: every HeatSetpoint and CoolSetpoint a command carries is within    *)
(* the limits the device reports for that side, the other side's setpoint  *)
(* pushed by the deadband included.                                        *)
C28_SentSetpointsWithinLimits ==
    [][\A t \in DOMAIN task :
        (SendsCommand(t) /\ CacheWithinLimits(dev.uiData))
        => LET body == CommandSent(task'[t])
           IN  \A which \in {"Heat", "Cool"} :
                 which \o "Setpoint" \in DOMAIN body
                 => WithinLimits(dev.uiData, which,
                                 Some(body[which \o "Setpoint"]))]_vars

(* C29: set_hold_heat and set_hold_cool send the same hold status, and the *)
(* same deadline for a temporary hold, for heat and for cool, and cache    *)
(* them: after a successful set_hold the cached StatusHeat equals the      *)
(* cached StatusCool.                                                      *)
C29_HoldInLockstep ==
    [][\A t \in DOMAIN task :
        /\ (SendsCommand(t) /\ task'[t].op \in HoldOps)
            => LET body == CommandSent(task'[t])
               IN  /\ "StatusHeat" \in DOMAIN body
                   /\ "StatusCool" \in DOMAIN body
                   /\ body["StatusHeat"] = body["StatusCool"]
                   /\ "HeatNextPeriod" \in DOMAIN body
                        <=> "CoolNextPeriod" \in DOMAIN body
                   /\ "HeatNextPeriod" \in DOMAIN body
                        => body["HeatNextPeriod"] = body["CoolNextPeriod"]
        /\ (CommandSucceeds(t) /\ task[t].op \in HoldOps)
            => /\ dev'.uiData["StatusHeat"] = dev'.uiData["StatusCool"]
               /\ dev'.uiData["StatusHeat"] = CommandSent(task[t])["StatusHeat"]
               /\ HoldType(dev'.uiData, "Heat") = "temporary"
                    => dev'.uiData["HeatNextPeriod"]
                         = dev'.uiData["CoolNextPeriod"]]_vars

C29_Witness ==
    \E t \in DOMAIN task :
        /\ task[t].op = "set_hold_cool"
        /\ task[t].args[1] = HoldTime(23, 45)
        /\ task[t].outcome = "ok"
        /\ dev.uiData["StatusHeat"] = 1
        /\ dev.uiData["StatusCool"] = 1
        /\ dev.uiData["HeatNextPeriod"] = 95
        /\ dev.uiData["CoolNextPeriod"] = 95

-----------------------------------------------------------------------------
(* The shared header map and the failure counter.                          *)

(* C27: no authenticated request carries a Content-Type that another       *)
(* operation, in flight or failed, has set: once a login has set the       *)
(* Content-Type of the shared header map, every authenticated JSON request *)
(* is sent with Content-Type application/json.                             *)
C27_FetchSentAsJson ==
    [][\A t \in DOMAIN task :
        (Calls(t, "get_data") /\ "Content-Type" \in DOMAIN headers)
        => /\ Len(task'[t].sent) = 1
           /\ task'[t].sent[1].content_type = JsonType]_vars

(* C30: the failure counter goes down only in a successful authenticated   *)
(* fetch, never because time passes; once it has reached 3, every further  *)
(* counted login failure, one after next_login has passed included, sets   *)
(* next_login to the time of that failure plus 10 minutes.                 *)
C30_CounterOutlivesWindow ==
    [][/\ \A t \in DOMAIN task :
            (LoginAuthFails(t) /\ null_cookie_count >= 3)
            => /\ null_cookie_count' = null_cookie_count + 1
               /\ next_login' = now + 10
       /\ null_cookie_count' < null_cookie_count
            => \E t \in DOMAIN task :
                 /\ task[t].pc = "fetch"
                 /\ task'[t].outcome = "ok"
                 /\ null_cookie_count' = 0
       /\ now' # now => null_cookie_count' = null_cookie_count]_vars

C30_Witness ==
    \E t \in DOMAIN task :
        /\ task[t].op = "login"
        /\ task[t].pc = "ready"
        /\ task[t].outcome = "AuthError"
        /\ null_cookie_count = 4
        /\ now >= 10
        /\ next_login = now + 10

-----------------------------------------------------------------------------
(* Polling.                                                                *)

\* The extended block is a decoded one that names neither a humidifier nor
\* a dehumidifier.
NeitherHumidity(gdata) ==
    /\ DOMAIN gdata # {}
    /\ DOMAIN gdata \cap {"response", "Humidifier", "Dehumidifier"} = {}

\* The refresh of task t gets its thermostat data in this step.
RefreshGetsData(t) ==
    /\ task[t].pc = "refresh"
    /\ task'[t].resp.status = 200
    /\ task'[t].resp.content_type = JsonType
    /\ task'[t].resp.body = "data"

(* C24: refresh pulls the extended block exactly when the cached extended  *)
(* block is absent or empty or names a humidifier or a dehumidifier; with  *)
(* an extended block that names neither in the cache, a successful refresh *)
(* sends exactly one request and leaves the extended block as it is.       *)
C24_ExtendedBlockPulledWhenNeeded ==
    [][\A t \in DOMAIN task :
        /\ RefreshGetsData(t)
            => (task'[t].pc = "refresh_data" /\ Len(task'[t].sent) = 2
                    /\ task'[t].sent[2].path = "/portal/Device/Menu/GetData")
               <=> \/ DOMAIN dev.gdata = {}
                   \/ "Humidifier" \in DOMAIN dev.gdata
                   \/ "Dehumidifier" \in DOMAIN dev.gdata
        /\ (task[t].pc \in {"refresh", "refresh_data"}
                /\ task'[t].pc = "ready" /\ task'[t].outcome = "ok"
                /\ NeitherHumidity(dev.gdata))
            => /\ Len(task'[t].sent) = 1
               /\ dev'.gdata = dev.gdata]_vars

C24_Witness ==
    \E t \in DOMAIN task :
        /\ task[t].op = "refresh"
        /\ task[t].outcome = "ok"
        /\ task[t].resp.status = 200
        /\ task[t].resp.body = "data"
        /\ Len(task[t].sent) = 1
        /\ dev.gdata = PlainGData
        /\ dev.uiData = Reported.uiData

\* The polling requests that task t has sent.
Polls(tk) == {i \in 1..Len(tk.sent) : "seq" \in DOMAIN tk.sent[i]}

(* C26: the request-sequence counter never goes down; every poll carries   *)
(* the counter's value and advances it by one before anything else runs,   *)
(* whether or not the poll then succeeds, so two polls of one session,     *)
(* interleaved where they await, never carry the same value.               *)
C26_PollSequenceUnique ==
    [][/\ counter' >= counter
       /\ \A t \in DOMAIN task :
            (Calls(t, "refresh") /\ task'[t].pc = "refresh")
            => /\ task'[t].sent[1].seq = counter
               /\ counter' = counter + 1
       /\ \A t \in DOMAIN task : \A i \in Polls(task'[t]) :
            /\ task'[t].sent[i].seq < counter'
            /\ \A u \in DOMAIN task \ {t} : \A j \in Polls(task'[u]) :
                 task'[u].sent[j].seq # task'[t].sent[i].seq]_vars

C26_Witness ==
    \E t, u \in DOMAIN task :
        /\ t # u
        /\ task[t].pc = "refresh"
        /\ task[u].pc = "refresh"
        /\ task[t].sent[1].seq = 0
        /\ task[u].sent[1].seq = 1
        /\ counter = 2

-----------------------------------------------------------------------------
(* The pages of the location list.                                         *)

\* A page of the discover of task t is answered in this step.
PageAnswered(t) ==
    /\ task[t].pc = "pages"
    /\ task'[t] # task[t]
    /\ task'[t].outcome # "ClientError"

(* C25: discover asks for the pages 1 to 4 of the location list, in order  *)
(* and for no other; a page whose content is not JSON adds no record and   *)
(* the pages after it are still asked for; when every page is empty or not *)
(* JSON, discover registers no location and raises nothing.                *)
C25_FourPagesNonJsonSkipped ==
    [][\A t \in DOMAIN task :
        /\ task'[t].op = "discover"
            => /\ Len(task'[t].sent) <= 4
               /\ \A i \in 1..Len(task'[t].sent) :
                    /\ task'[t].sent[i].page = i
                    /\ task'[t].sent[i].path
                         = "/portal/Location/GetLocationListData/"
        /\ (PageAnswered(t) /\ task'[t].pc = "ready")
            => Len(task'[t].sent) = 4
        /\ (PageAnswered(t) /\ task'[t].resp.content_type # JsonType)
            => /\ task'[t].args[1] = task[t].args[1]
               /\ Len(task[t].sent) < 4
                    => /\ task'[t].pc = "pages"
                       /\ Len(task'[t].sent) = Len(task[t].sent) + 1
        /\ (PageAnswered(t) /\ task'[t].pc = "ready"
                /\ task'[t].args[1] = <<>>)
            => /\ locations' = locations
               /\ task'[t].outcome = "ok"]_vars

C25_Witness ==
    \E t \in DOMAIN task :
        /\ task[t].op = "discover"
        /\ task[t].outcome = "ok"
        /\ Len(task[t].sent) = 4
        /\ task[t].resp.content_type = HtmlType
        /\ task[t].args[1] = <<RawL2>>
        /\ "L2" \in DOMAIN locations

-----------------------------------------------------------------------------
(* Reading the modes back.                                                 *)

\* What a property returns when it returns the name mode.
Reads(mode) == [raises |-> "none", value |-> Some(mode)]

(* C31: after a successful set_system_mode(m), for every m of the list of  *)
(* system modes (which holds "auto" twice), system_mode returns m; after a *)
(* successful set_fan_mode(m), for every allowed fan mode m, fan_mode      *)
(* returns m.                                                              *)
C31_ModesReadBack ==
    [][\A t \in DOMAIN task :
        /\ (CommandSucceeds(t) /\ task[t].op = "set_system_mode"
                /\ Contains(SYSTEM_MODES, task[t].args[1]))
            => system_mode(dev') = Reads(task[t].args[1])
        /\ (CommandSucceeds(t) /\ task[t].op = "set_fan_mode"
                /\ Contains(FAN_MODES, task[t].args[1]))
            => fan_mode(dev') = Reads(task[t].args[1])]_vars

C31_Witness ==
    \E t \in DOMAIN task :
        /\ task[t].op = "set_system_mode"
        /\ task[t].pc = "ready"
        /\ task[t].outcome = "ok"
        /\ task[t].args = <<"auto">>
        /\ dev.uiData["SystemSwitchPosition"] = 4
        /\ system_mode(dev) = Reads("auto")

=============================================================================
